---------------------------- MODULE Spec2Model ----------------------------
(***************************************************************************)
(* Civ6-Optimizer map viewer: tile scoring / tiering engine                *)
(* (modules/utils.js, scoring part), the recalculation orchestrator        *)
(* (modules/uiControls.js, modules/state.js) and the offset-hex radius     *)
(* query (modules/interaction.js).                                         *)
(*                                                                         *)
(* Numbers.  Weights are decimal fractions with one digit (slider step     *)
(* 0.1); they are held here multiplied by ten, so 1.0 is 10 and 0.5 is   *)
(* 5.  weighted_score is therefore held in tenths.  normalized_score and   *)
(* the percentile arithmetic are computed exactly on these integers        *)
(* (IEEE rounding noise of the JavaScript doubles is not modelled).        *)
(* Percentiles are held in percent (0.05 is 5, 1.0 is 100).                *)
(***************************************************************************)
EXTENDS Integers, Sequences, FiniteSets, TLC

VARIABLES
    mapData,            \* state.mapData: [loaded, tiles]; NoData before the load
    minScore,           \* state.minScore
    maxScore,           \* state.maxScore
    scoring_weights,    \* config.scoring_weights
    weightObjects,      \* the weight objects kept by the modules: [defaults,
                        \* presets, ref], ref the one config.scoring_weights is
    tier_percentiles,   \* config.tier_percentiles, entries in key order
    resource_values,    \* config.resource_values, classes in key order
    scoreThresholds,    \* thresholds returned by the last recalculation
    timeout,            \* debounce(): TRUE while a timer is pending
    sliderEdits,        \* number of slider inputs so far (bounded)
    lastOp,             \* the handler that ran last
    hexagons,           \* state.hexagons: sequence of meshes (tile coords)
    hexagonCoordMap,    \* interaction.js hexagonCoordMap: coord -> handle
    centerHex,          \* argument of getHexagonsWithinRadius (handle)
    radius,             \* argument of getHexagonsWithinRadius
    bfs,                \* locals of getCoordsWithinRadius
    found,              \* result set of getHexagonsWithinRadius
    pc,                 \* position inside getHexagonsWithinRadius
    meshes,             \* per hexagon: visible, material.opacity, emissive, marker
    selectedTiers,      \* config.selectedTiers
    isDebugModeEnabled, \* config.isDebugModeEnabled
    hoverRadius,        \* config.hoverRadius
    isDebugModeActive,  \* interaction.js isDebugModeActive
    debugModeCenterHex, \* interaction.js debugModeCenterHex (handle or NoHex)
    debugModeVisibleSet,    \* interaction.js debugModeVisibleSet
    debugModeWorkableSet,   \* interaction.js debugModeWorkableSet
    debugModeOuterRingSet,  \* interaction.js debugModeOuterRingSet
    currentlyAffectedHexagons,  \* interaction.js currentlyAffectedHexagons
    hoveredHexagon,     \* state.hoveredHexagon (handle or NoHex)
    lastEvent,          \* the input event handled last, see Event
    now,                \* time in timer ticks
    timers,             \* the host's table of pending timers: [id, due]
    timerId,            \* debounce(): the closure variable, as a timer id
    burst               \* the current slider burst: [inputs, lastInput, runs]

scoreVars == <<mapData, minScore, maxScore, scoring_weights, weightObjects,
               tier_percentiles,
               resource_values, scoreThresholds, timeout, sliderEdits, lastOp>>
gridVars == <<hexagons, hexagonCoordMap, centerHex, radius, bfs, found, pc>>
configVars == <<selectedTiers, isDebugModeEnabled, hoverRadius>>
focusVars == <<isDebugModeActive, debugModeCenterHex, debugModeVisibleSet,
               debugModeWorkableSet, debugModeOuterRingSet>>
hoverVars == <<currentlyAffectedHexagons, hoveredHexagon>>
interactionVars == <<configVars, focusVars, hoverVars, lastEvent>>
timerVars == <<now, timers, timerId, burst>>
vars == <<mapData, minScore, maxScore, scoring_weights, weightObjects, tier_percentiles,
          resource_values, scoreThresholds, timeout, sliderEdits, lastOp,
          hexagons, hexagonCoordMap, centerHex, radius, bfs, found, pc,
          meshes, selectedTiers, isDebugModeEnabled, hoverRadius,
          isDebugModeActive, debugModeCenterHex, debugModeVisibleSet,
          debugModeWorkableSet, debugModeOuterRingSet,
          currentlyAffectedHexagons, hoveredHexagon, lastEvent,
          now, timers, timerId, burst>>

-----------------------------------------------------------------------------
(* Bounds of the model *)

MaxTiles == 3
MaxLoadTiles == 2
MaxSliderEdits == 1
MaxRadius == 2
MaxCols == 3
MaxRows == 3
FocusCols == 6
MaxHoverRadius == 2
MaxTime == 8
MaxBurstInputs == 3

-----------------------------------------------------------------------------
(* Representation of JavaScript values *)

\* null / undefined for a numeric field
NULL == -999
\* NaN, and a value that Number() converts to NaN (a non-numeric string)
NaN == -998

\* Number(v) for a coordinate: null becomes 0, a number or numeric string its
\* value, anything else NaN
Number(v) == IF v = NULL THEN 0 ELSE v

isNaN(v) == Number(v) = NaN
\* tile.tier === null
NoTier == "null"

\* a ?? d
Nullish(a, d) == IF a = NULL THEN d ELSE a
\* a || 0 for a number or null
OrZero(a) == IF a = NULL THEN 0 ELSE a
Max(a, b) == IF a >= b THEN a ELSE b
Min(a, b) == IF a <= b THEN a ELSE b
\* Math.ceil(n * p) for p given in percent, n * p >= 0
CeilPct(n, p) == (n * p + 99) \div 100
\* JavaScript remainder: the sign follows the dividend
JsRem(a, b) == IF a >= 0 THEN a % b ELSE -((-a) % b)

-----------------------------------------------------------------------------
(* Scoring engine: utils.js (scoring.js part)                              *)
(* A config is [scoring_weights, resource_values, tier_percentiles].       *)
(* scoring_weights is [yields |-> [food, production, gold],                *)
(* bonuses |-> [balance_factor, resource_strategic_factor,                 *)
(* resource_luxury_factor, fresh_water, appeal_positive_factor,            *)
(* goody_hut]]; an absent leaf (or an absent parent object) is NULL.       *)
(* resource_values is a sequence of [type, table], table a sequence of     *)
(* [name, value], in the key order of the object.                          *)

calculateYieldScore(food, production, gold, config) ==
    LET weights == config.scoring_weights.yields
        food_w == Nullish(weights.food, 10)
        prod_w == Nullish(weights.production, 10)
        gold_w == Nullish(weights.gold, 5)
    IN  (OrZero(food) * food_w) + (OrZero(production) * prod_w)
          + (OrZero(gold) * gold_w)

calculateBalanceBonus(food, production, config) ==
    LET bonusConfig == config.scoring_weights.bonuses
        balanceFactor == Nullish(bonusConfig.balance_factor, 10)
    IN  IF OrZero(food) > 0 /\ OrZero(production) > 0
          THEN Min(food, production) * balanceFactor
          ELSE 0

\* bonusConfig[`resource_${resType}_factor`]
ResourceFactorLeaf(bonusConfig, resType) ==
    CASE resType = "strategic" -> bonusConfig.resource_strategic_factor
      [] resType = "luxury"    -> bonusConfig.resource_luxury_factor
      [] OTHER                 -> NULL

\* Object.hasOwnProperty.call(resourcesOfType, resource)
HasResource(table, resource) ==
    \E i \in 1..Len(table) : table[i].name = resource

ResourceValueIn(table, resource) ==
    LET i == CHOOSE k \in 1..Len(table) : table[k].name = resource
    IN  Nullish(table[i].value, 0)

calculateResourceBonus(tile, config) ==
    LET resource == tile.resource
        resourceConfig == config.resource_values
        bonusConfig == config.scoring_weights.bonuses
        hits == {k \in 1..Len(resourceConfig) :
                    HasResource(resourceConfig[k].table, resource)}
    IN  IF resource = "" THEN 0
        ELSE IF hits = {} THEN 0
        ELSE LET first == CHOOSE k \in hits : \A j \in hits : k <= j
                 value == ResourceValueIn(resourceConfig[first].table, resource)
                 factor == Nullish(ResourceFactorLeaf(bonusConfig,
                                       resourceConfig[first].type), 10)
             IN  value * factor

calculateFreshWaterBonus(tile, config) ==
    LET bonusConfig == config.scoring_weights.bonuses
        freshWaterWeight == Nullish(bonusConfig.fresh_water, 0)
    IN  IF tile.rivers THEN freshWaterWeight ELSE 0

\* variant: the factor is applied to a negative appeal as well
calculateAppealBonus_Signed(tile, config) ==
    LET bonusConfig == config.scoring_weights.bonuses
        positiveFactor == Nullish(bonusConfig.appeal_positive_factor, 5)
    IN  IF tile.appeal = NULL THEN 0 ELSE tile.appeal * positiveFactor

calculateAppealBonus(tile, config) ==
    LET appealValue == tile.appeal
        bonusConfig == config.scoring_weights.bonuses
        positiveFactor == Nullish(bonusConfig.appeal_positive_factor, 5)
    IN  IF appealValue = NULL THEN 0
        ELSE IF appealValue > 0 THEN appealValue * positiveFactor
        ELSE 0

calculateGoodyBonus(tile, config) ==
    LET bonusConfig == config.scoring_weights.bonuses
        goodyWeight == Nullish(bonusConfig.goody_hut, 0)
    IN  IF tile.goodyhut THEN goodyWeight ELSE 0

\* terrain === 'TERRAIN_OCEAN' || feature === 'FEATURE_ICE'
IsOceanOrIce(tile) ==
    tile.terrain = "TERRAIN_OCEAN" \/ tile.feature = "FEATURE_ICE"

\* variant: the result is returned without the floor
ClampScore_None(totalScore) == totalScore

\* Math.max(0, totalScore)
ClampScore(totalScore) == Max(0, totalScore)

calculateWeightedTileScore(tile, config) ==
    IF IsOceanOrIce(tile) THEN 0
    ELSE LET food == Nullish(tile.base_food, 0)
             production == Nullish(tile.base_production, 0)
             gold == Nullish(tile.base_gold, 0)
             yieldScore == calculateYieldScore(food, production, gold, config)
             balanceBonus == calculateBalanceBonus(food, production, config)
             resourceBonus == calculateResourceBonus(tile, config)
             freshWaterBonus == calculateFreshWaterBonus(tile, config)
             appealBonus == calculateAppealBonus(tile, config)
             goodyBonus == calculateGoodyBonus(tile, config)
             totalScore == yieldScore + balanceBonus + resourceBonus
                             + freshWaterBonus + appealBonus + goodyBonus
         IN  ClampScore(totalScore)


-----------------------------------------------------------------------------
(* Tiering engine: normalizeAndAssignTiers                                 *)

RECURSIVE SumSeq(_)
SumSeq(q) == IF q = <<>> THEN 0 ELSE Head(q) + SumSeq(Tail(q))

\* Array.prototype.sort with comparator a.key - b.key: stable, ascending.
\* InsertByKey puts x behind every element whose key is not larger.
RECURSIVE InsertByKey(_, _)
InsertByKey(x, q) ==
    IF q = <<>> THEN <<x>>
    ELSE IF Head(q).key <= x.key
           THEN <<Head(q)>> \o InsertByKey(x, Tail(q))
           ELSE <<x>> \o q

RECURSIVE SortByKey(_)
SortByKey(q) ==
    IF q = <<>> THEN <<>>
    ELSE InsertByKey(q[Len(q)], SortByKey(SubSeq(q, 1, Len(q) - 1)))

\* the empty object {}
EmptyMap == [t \in {} |-> 0]

\* variant: a non-workable tile keeps its previous normalized_score
ScoreTileStep_NoZero(tile, config) ==
    [tile EXCEPT !.weighted_score = calculateWeightedTileScore(tile, config),
                 !.is_workable = ~IsOceanOrIce(tile),
                 !.has_workable = TRUE,
                 !.tier = NoTier]

\* variant: the new score is added to the previous weighted_score
ScoreTileStep_Accumulate(tile, config) ==
    LET workable == ~IsOceanOrIce(tile)
    IN  [tile EXCEPT !.weighted_score = Nullish(tile.weighted_score, 0)
                                          + calculateWeightedTileScore(tile, config),
                     !.is_workable = workable,
                     !.has_workable = TRUE,
                     !.tier = NoTier,
                     !.normalized_score =
                         IF workable THEN tile.normalized_score ELSE 0]

\* utils.js 353-368: the per-tile pass of step 1
ScoreTileStep(tile, config) ==
    LET workable == ~IsOceanOrIce(tile)
    IN  [tile EXCEPT !.weighted_score = calculateWeightedTileScore(tile, config),
                     !.is_workable = workable,
                     !.has_workable = TRUE,
                     !.tier = NoTier,
                     !.normalized_score =
                         IF workable THEN tile.normalized_score ELSE 0]

\* Math.round((weighted_score / avgScore) * 100), avgScore = total / n
NormalizedOf(weighted, total, n) ==
    (2 * weighted * 100 * n + total) \div (2 * total)

\* utils.js 376-388
NormalizeStep(ts, workableIdx) ==
    LET n == Len(workableIdx)
        total == SumSeq([k \in 1..n |-> Nullish(ts[workableIdx[k]].weighted_score, 0)])
    IN  [i \in 1..Len(ts) |->
            IF ts[i].is_workable
              THEN [ts[i] EXCEPT !.normalized_score =
                       IF total = 0 THEN 0
                       ELSE NormalizedOf(Nullish(ts[i].weighted_score, 0), total, n)]
              ELSE ts[i]]

\* variant: Math.floor in place of Math.ceil
CutoffIndex_Floor(nTiles, percentileLimit) ==
    Max(0, Min(((nTiles * percentileLimit) \div 100) - 1, nTiles - 1))

\* Math.max(0, Math.min(Math.ceil(nTiles * percentileLimit) - 1, nTiles - 1))
CutoffIndex(nTiles, percentileLimit) ==
    Max(0, Min(CeilPct(nTiles, percentileLimit) - 1, nTiles - 1))

\* utils.js 432: the tier is skipped
SkipTier(cutoffIndex, lastCutoffIndex, tierIndex) ==
    cutoffIndex < lastCutoffIndex /\ tierIndex > 0

\* utils.js 423-461: one iteration of sortedTiersConfig.forEach.
\* st = [last |-> lastCutoffIndex, thr |-> scoreThresholds,
\*       tierOf |-> tier of sortedWorkable[i], i = 0..nTiles-1]
AssignOneTier(st, entry, tierIndex, scoreAt, nTiles) ==
    LET cutoffIndex == CutoffIndex(nTiles, entry.percentile)
    IN  IF SkipTier(cutoffIndex, st.last, tierIndex) THEN st
        ELSE [last |-> cutoffIndex + 1,
              thr |-> (entry.tier :> scoreAt[cutoffIndex]) @@ st.thr,
              tierOf |-> [i \in 0..(nTiles - 1) |->
                            IF /\ i >= st.last
                               /\ i <= cutoffIndex
                               /\ st.tierOf[i] = NoTier
                              THEN entry.tier
                              ELSE st.tierOf[i]]]

RECURSIVE AssignTiers(_, _, _, _, _)
AssignTiers(st, sortedTiersConfig, k, scoreAt, nTiles) ==
    IF k > Len(sortedTiersConfig) THEN st
    ELSE AssignTiers(AssignOneTier(st, sortedTiersConfig[k], k - 1, scoreAt, nTiles),
                     sortedTiersConfig, k + 1, scoreAt, nTiles)

\* utils.js 465-473: leftover tiles get the lowest configured tier
FallbackTier(tier, sortedTiersConfig) ==
    IF tier = NoTier
      THEN (IF Len(sortedTiersConfig) > 0 THEN sortedTiersConfig[1].tier ELSE "F")
      ELSE tier

\* variant: comparator reversed, the tiles are sorted descending
SortKey_Descending(tile) == 0 - Nullish(tile.normalized_score, 0)

\* utils.js 406: the comparator's key, (a.normalized_score ?? 0)
SortKey(tile) == Nullish(tile.normalized_score, 0)

\* utils.js 397-484
TierStep(ts, workableIdx, tierPercentiles) ==
    IF Len(tierPercentiles) = 0
      THEN [tiles |-> ts, scoreThresholds |-> EmptyMap]
    ELSE
      LET keyN(i) == Nullish(ts[i].normalized_score, 0)
          sortedPairs == SortByKey([k \in 1..Len(workableIdx) |->
                             [key |-> SortKey(ts[workableIdx[k]]), val |-> workableIdx[k]]])
          sortedWorkable == [k \in 1..Len(sortedPairs) |-> sortedPairs[k].val]
          nTiles == Len(sortedWorkable)
          sortedEntries == SortByKey([k \in 1..Len(tierPercentiles) |->
                             [key |-> tierPercentiles[k].percentile,
                              val |-> tierPercentiles[k]]])
          sortedTiersConfig == [k \in 1..Len(sortedEntries) |-> sortedEntries[k].val]
          scoreAt == [i \in 0..(nTiles - 1) |-> keyN(sortedWorkable[i + 1])]
          st0 == [last |-> 0, thr |-> EmptyMap,
                  tierOf |-> [i \in 0..(nTiles - 1) |-> ts[sortedWorkable[i + 1]].tier]]
          st == AssignTiers(st0, sortedTiersConfig, 1, scoreAt, nTiles)
          posOf(i) == CHOOSE j \in 0..(nTiles - 1) : sortedWorkable[j + 1] = i
      IN  [tiles |-> [i \in 1..Len(ts) |->
                        IF ts[i].is_workable
                          THEN [ts[i] EXCEPT !.tier =
                                   FallbackTier(st.tierOf[posOf(i)], sortedTiersConfig)]
                          ELSE ts[i]],
           scoreThresholds |-> st.thr]

RECURSIVE SelectIdx(_, _)
SelectIdx(ts, k) ==
    IF k > Len(ts) THEN <<>>
    ELSE (IF ts[k].is_workable THEN <<k>> ELSE <<>>) \o SelectIdx(ts, k + 1)

\* variant: returns right after normalization when the mean is 0
normalizeAndAssignTiers_SkipOnZeroMean(tiles0, config) ==
    LET ts1 == [i \in 1..Len(tiles0) |-> ScoreTileStep(tiles0[i], config)]
        workableTiles == SelectIdx(ts1, 1)
        zeroMean == \A k \in 1..Len(workableTiles) :
                        ts1[workableTiles[k]].weighted_score = 0
    IN  IF Len(workableTiles) = 0
          THEN [tiles |-> ts1, scoreThresholds |-> EmptyMap]
          ELSE IF zeroMean
            THEN [tiles |-> NormalizeStep(ts1, workableTiles),
                  scoreThresholds |-> EmptyMap]
            ELSE TierStep(NormalizeStep(ts1, workableTiles), workableTiles,
                          config.tier_percentiles)

\* utils.js 350-485
normalizeAndAssignTiers(tiles0, config) ==
    LET ts1 == [i \in 1..Len(tiles0) |-> ScoreTileStep(tiles0[i], config)]
        workableTiles == SelectIdx(ts1, 1)
    IN  IF Len(workableTiles) = 0
          THEN [tiles |-> ts1, scoreThresholds |-> EmptyMap]
          ELSE TierStep(NormalizeStep(ts1, workableTiles), workableTiles,
                        config.tier_percentiles)

\* utils.js 494-511 (tiles is always an array and config an object here)
recalculateScoresAndTiers(tiles0, config) == normalizeAndAssignTiers(tiles0, config)


-----------------------------------------------------------------------------
(* Configuration: config.js, uiControls.js                                 *)

Weights(f, p, g, bal, strat, lux, water, app, goody) ==
    [yields |-> [food |-> f, production |-> p, gold |-> g],
     bonuses |-> [balance_factor |-> bal, resource_strategic_factor |-> strat,
                  resource_luxury_factor |-> lux, fresh_water |-> water,
                  appeal_positive_factor |-> app, goody_hut |-> goody]]

\* config.js 9-15
defaultScoringWeights == Weights(10, 10, 5, 5, 10, 10, 100, 5, 150)

\* config.js 18-20
defaultTierPercentiles ==
    << [tier |-> "F", percentile |-> 5],  [tier |-> "E", percentile |-> 15],
       [tier |-> "D", percentile |-> 35], [tier |-> "C", percentile |-> 65],
       [tier |-> "B", percentile |-> 85], [tier |-> "A", percentile |-> 95],
       [tier |-> "S", percentile |-> 100] >>

\* variant: no copy is made, the result is the argument itself
JsonCopy_SameObject(obj) == obj

\* JSON.parse(JSON.stringify(obj)) for a weights object [value, ref]: a new
\* object, shared with none of the stored ones, with the same leaves (all
\* leaves of the stored objects are finite numbers)
JsonCopy(obj) == [value |-> obj.value, ref |-> "own"]

\* config.js 9-15, the object itself
DefaultsObject == [value |-> weightObjects.defaults, ref |-> "defaults"]

\* config.js 145-147
getDefaultWeights == JsonCopy(DefaultsObject)

PresetNames == {"balanced", "production", "food_growth", "gold", "science"}

\* uiControls.js 19-56
scoringPresets(name) ==
    CASE name = "balanced"    -> Weights(10, 10, 5, 5, 10, 10, 100, 5, 150)
      [] name = "production"  -> Weights(8, 18, 4, 3, 18, 8, 80, 3, 100)
      [] name = "food_growth" -> Weights(18, 8, 4, 6, 8, 12, 150, 6, 150)
      [] name = "gold"        -> Weights(7, 7, 20, 2, 10, 15, 50, 4, 100)
      [] name = "science"     -> Weights(9, 9, 6, 4, 12, 12, 120, 20, 100)

\* uiControls.js 19-56, the object scoringPresets[name] itself
PresetObject(name) == [value |-> weightObjects.presets[name], ref |-> name]

\* config.js 9-15 and uiControls.js 19-56 as the modules define them, and
\* config.js 43: config.scoring_weights starts as a copy of the defaults
InitialWeightObjects ==
    [defaults |-> defaultScoringWeights,
     presets |-> [name \in PresetNames |-> scoringPresets(name)],
     ref |-> JsonCopy([value |-> defaultScoringWeights, ref |-> "defaults"]).ref]

\* the data-weight-key of the eight weight sliders (civ-map-three.html)
SliderKeys == {"yields.food", "yields.production", "yields.gold",
               "bonuses.appeal_positive_factor", "bonuses.fresh_water",
               "bonuses.resource_strategic_factor",
               "bonuses.resource_luxury_factor", "bonuses.balance_factor"}

\* slider positions tried: 0.0 and 2.0 (inside every slider's range)
SliderValues == {0, 20}

\* config.js 113-140: updateConfig(`scoring_weights.${weightKey}`, newValue)
updateConfig(w, key, v) ==
    CASE key = "yields.food"       -> [w EXCEPT !.yields.food = v]
      [] key = "yields.production" -> [w EXCEPT !.yields.production = v]
      [] key = "yields.gold"       -> [w EXCEPT !.yields.gold = v]
      [] key = "bonuses.appeal_positive_factor" ->
             [w EXCEPT !.bonuses.appeal_positive_factor = v]
      [] key = "bonuses.fresh_water" -> [w EXCEPT !.bonuses.fresh_water = v]
      [] key = "bonuses.resource_strategic_factor" ->
             [w EXCEPT !.bonuses.resource_strategic_factor = v]
      [] key = "bonuses.resource_luxury_factor" ->
             [w EXCEPT !.bonuses.resource_luxury_factor = v]
      [] key = "bonuses.balance_factor" -> [w EXCEPT !.bonuses.balance_factor = v]

\* config.js 113-140: the write goes to the object config.scoring_weights is,
\* which is a stored object when no copy was made
WeightObjectsAfterEdit(key, v) ==
    CASE weightObjects.ref = "defaults" ->
             [weightObjects EXCEPT !.defaults = updateConfig(@, key, v)]
      [] weightObjects.ref \in PresetNames ->
             [weightObjects EXCEPT !.presets[weightObjects.ref] = updateConfig(@, key, v)]
      [] OTHER -> weightObjects

\* the config object handed to the scoring engine
Config == [scoring_weights |-> scoring_weights,
           resource_values |-> resource_values,
           tier_percentiles |-> tier_percentiles]

-----------------------------------------------------------------------------
(* Tiles and map data                                                      *)

\* a tile as it comes from the data file, derived fields not yet present
RawTile(terrain, feature, f, p, g, res, riv, app, goody) ==
    [terrain |-> terrain, feature |-> feature, base_food |-> f,
     base_production |-> p, base_gold |-> g, resource |-> res, rivers |-> riv,
     appeal |-> app, goodyhut |-> goody,
     weighted_score |-> NULL, normalized_score |-> NULL, tier |-> NoTier,
     is_workable |-> FALSE, has_workable |-> FALSE]

\* No is_workable property yet (state.js 109): tile.is_workable is undefined
DropWorkable(t) == [t EXCEPT !.is_workable = FALSE, !.has_workable = FALSE]

OceanTile  == RawTile("TERRAIN_OCEAN", "", 1, 0, 1, "", FALSE, NULL, FALSE)
IceTile    == RawTile("TERRAIN_SNOW", "FEATURE_ICE", 0, 0, 0, "", FALSE, -1, FALSE)
RiverTile  == RawTile("TERRAIN_GRASS", "", 2, 1, 0, "", TRUE, 1, FALSE)
HillsTile  == RawTile("TERRAIN_GRASS_HILLS", "", 1, 2, 0, "RESOURCE_IRON", FALSE, 2, FALSE)
DesertTile == RawTile("TERRAIN_DESERT", "", 0, 0, 0, "", FALSE, -1, FALSE)

TileKinds == {OceanTile, IceTile, RiverTile, HillsTile, DesertTile}

RECURSIVE SeqsUpTo(_, _)
SeqsUpTo(S, n) ==
    IF n = 0 THEN {<<>>}
    ELSE LET shorter == SeqsUpTo(S, n - 1)
         IN  shorter \cup {Append(q, x) : q \in {r \in shorter : Len(r) = n - 1}, x \in S}

RawMaps == SeqsUpTo(TileKinds, MaxTiles)

\* the converter's output: scores and tiers pre-calculated with the default
\* configuration (README), but no is_workable property
Prescored(raw) ==
    LET r == normalizeAndAssignTiers(raw,
                 [scoring_weights |-> defaultScoringWeights,
                  resource_values |-> <<>>,
                  tier_percentiles |-> defaultTierPercentiles])
    IN  [i \in 1..Len(raw) |-> DropWorkable(r.tiles[i])]

\* tile collections handed to the scoring functions
DataFiles == RawMaps \cup {Prescored(raw) : raw \in RawMaps}

\* tile kinds of the files the application loads: one that is never workable,
\* one that scores above zero and one that scores zero (ice behaves as ocean
\* and hills as grass once config.resource_values is absent)
LoadKinds == {OceanTile, RiverTile, DesertTile}

\* data files the application loads
LoadFiles ==
    {d \in DataFiles : Len(d) <= MaxLoadTiles /\ \A i \in 1..Len(d) :
        \E k \in LoadKinds : d[i].terrain = k.terrain}

NoData == [loaded |-> FALSE, tiles |-> <<>>]

SetMin(S) == CHOOSE x \in S : \A y \in S : x <= y
SetMax(S) == CHOOSE x \in S : \A y \in S : x >= y

-----------------------------------------------------------------------------
(* state.js                                                                *)

\* variant: equal bounds are published as they are
setMinMaxScores_NoWiden(newMin, newMax) == [min |-> newMin, max |-> newMax]

\* state.js 138-147: the pair (minScore, maxScore) after the call
setMinMaxScores(newMin, newMax) ==
    [min |-> newMin, max |-> IF newMin = newMax THEN newMax + 1 ELSE newMax]

\* tile.is_workable ?? !(ocean or ice)
IsWorkableAtLoad(t) == IF t.has_workable THEN t.is_workable ELSE ~IsOceanOrIce(t)

\* state.js 101-130.  `scores` is not declared in this version of the
\* function: evaluating scores.length (reached only when minScore equals
\* maxScore) throws a ReferenceError after both fields were written.
setMapData(data) ==
    LET cand == {data[i].normalized_score : i \in
                    {k \in 1..Len(data) : /\ IsWorkableAtLoad(data[k])
                                          /\ data[k].normalized_score # NULL}}
        lo == IF cand = {} THEN 0 ELSE SetMin(cand)
        hi == IF cand = {} THEN 100 ELSE SetMax(cand)
    IN  [min |-> lo, max |-> hi, thrown |-> (lo = hi)]

-----------------------------------------------------------------------------
(* uiControls.js: recalculation orchestrator                               *)

\* uiControls.js 72-85: the arguments passed to state.setMinMaxScores
ScoreRange(ts) ==
    LET cand == {ts[i].normalized_score : i \in
                    {k \in 1..Len(ts) : /\ ts[k].has_workable
                                        /\ ts[k].is_workable
                                        /\ ts[k].normalized_score # NULL}}
    IN  [min |-> IF cand = {} THEN 0 ELSE SetMin(cand),
         max |-> IF cand = {} THEN 100 ELSE SetMax(cand)]

-----------------------------------------------------------------------------
(* Presentation: createHexagonMesh and updateMapDisplay (mapElements.js)   *)
(* A mesh is [visible, opacity, emissive, wasDebugHighlighted]; opacity is *)
(* held in hundredths (1.0 is 100), emissive is the colour that was set    *)
(* last: "none" 0x000000, "hover" 0x555555, "top" 0xAAAA00, "debug"      *)
(* DEBUG_CENTER_HIGHLIGHT_COLOR.  Hexagon h shows tile h of the data file. *)

\* config.js 32 and 34: the values the configuration starts with
highlightTopTiles == FALSE
showScoreHeatmap == FALSE

\* config.js 74-79: Object.keys(tierStyles)
allPossibleTiers == {"S", "A", "B", "C", "D", "E", "F"}

\* mapElements.js 353-355
isOceanOrCoast(tile) == tile.terrain \in {"TERRAIN_OCEAN", "TERRAIN_COAST"}

\* mapElements.js 403: tileTier && config.selectedTiers.includes(tileTier)
isSelectedTier(tile, sel) == tile.tier # NoTier /\ tile.tier \in sel

\* part_001 398-444: a new mesh (three.js: visible, emissive black)
createHexagonMesh ==
    [visible |-> TRUE, opacity |-> 100, emissive |-> "none",
     wasDebugHighlighted |-> FALSE]

\* mapElements.js 384-412: opacity and isVisible of one hexagon
DisplayOf(tile, sel) ==
    LET isWorkable == IF tile.has_workable THEN tile.is_workable
                      ELSE ~isOceanOrCoast(tile)
        anyTierUnselected == Cardinality(sel) < Cardinality(allPossibleTiers)
    IN  IF ~isWorkable /\ anyTierUnselected /\ ~showScoreHeatmap
          THEN [visible |-> TRUE, opacity |-> 30]
        ELSE IF isWorkable /\ ~isSelectedTier(tile, sel)
          THEN [visible |-> FALSE, opacity |-> 15]
        ELSE [visible |-> TRUE, opacity |-> 100]

\* mapElements.js 416-430: the emissive colour of one hexagon
EmissiveOf(mesh, h, tile, sel, hovered) ==
    IF /\ highlightTopTiles
       /\ tile.tier \in {"S", "A"}
       /\ ~showScoreHeatmap
       /\ isSelectedTier(tile, sel)
      THEN "top"
    ELSE IF h # hovered THEN "none"
    ELSE mesh.emissive

\* mapElements.js 362-487: state.hexagons.forEach
updateMapDisplay(ms, tiles, sel, hovered) ==
    [h \in 1..Len(ms) |->
        [ms[h] EXCEPT !.visible = DisplayOf(tiles[h], sel).visible,
                      !.opacity = DisplayOf(tiles[h], sel).opacity,
                      !.emissive = EmissiveOf(ms[h], h, tiles[h], sel, hovered)]]

\* lastOp after a recalculation with weights w: "rerun" when the previous
\* handler was a recalculation with the same weights
OpAfterRecalc(w) ==
    IF lastOp \in {"recalc", "rerun"} /\ w = scoring_weights THEN "rerun" ELSE "recalc"

\* uiControls.js 62-101, with the weights w in config.scoring_weights
handleRecalculation(w) ==
    IF mapData.loaded
      THEN \E r \in {recalculateScoresAndTiers(mapData.tiles,
                        [Config EXCEPT !.scoring_weights = w])} :
             \E published \in {setMinMaxScores(ScoreRange(r.tiles).min,
                                               ScoreRange(r.tiles).max)} :
               /\ mapData' = [mapData EXCEPT !.tiles = r.tiles]
               /\ scoreThresholds' = r.scoreThresholds
               /\ minScore' = published.min
               /\ maxScore' = published.max
               /\ meshes' = updateMapDisplay(meshes, r.tiles, selectedTiers,
                                             hoveredHexagon)
      ELSE UNCHANGED <<mapData, scoreThresholds, minScore, maxScore, meshes>>

-----------------------------------------------------------------------------
(* Grid coordinate index and radius query: interaction.js                  *)
(* A hexagon mesh is [x, y] (its userData.tile coordinates); its handle is *)
(* its position in state.hexagons.  The map key `${x},${y}` is held as the *)
(* pair <<x, y>>: the template string is one-to-one on integers.           *)

NoHex == 0
IdleBfs == [queue |-> <<>>, visited |-> {}, results |-> <<>>]

\* hex.userData && hex.userData.tile: a hexagon is [x, y], the coordinates of
\* its tile, or a record without them
HasTile(hex) == "x" \in DOMAIN hex

\* interaction.js 53-71: the index is cleared, then every hexagon with a tile
\* whose Number(x) and Number(y) are not NaN is set under the key "x,y"; a
\* later hexagon with the same key replaces an earlier
buildHexagonCoordMap(hexs) ==
    LET kept == {i \in 1..Len(hexs) :
                    HasTile(hexs[i]) /\ ~isNaN(hexs[i].x) /\ ~isNaN(hexs[i].y)}
        key(i) == <<Number(hexs[i].x), Number(hexs[i].y)>>
    IN  [c \in {key(i) : i \in kept} |->
            CHOOSE i \in kept : key(i) = c /\ \A j \in kept : key(j) = c => j <= i]

\* hex.userData.coord, set by buildHexagonCoordMap
CoordOf(h) == <<hexagons[h].x, hexagons[h].y>>

\* interaction.js 92-93: the two offset tables
EvenRowOffsets == << <<1, 0>>, <<1, 1>>, <<0, 1>>, <<-1, 0>>, <<0, -1>>, <<1, -1>> >>
OddRowOffsets == << <<1, 0>>, <<0, 1>>, <<-1, 1>>, <<-1, 0>>, <<-1, -1>>, <<0, -1>> >>

\* variant: a row is odd when Number(cr) % 2 === 1
IsEvenRow_OddIsOne(cr) == JsRem(cr, 2) # 1

\* interaction.js 91: Number(cr) % 2 === 0
IsEvenRow(cr) == JsRem(cr, 2) = 0

\* interaction.js 90-95
getDirectNeighbors(cq, cr) ==
    LET direct_offsets == IF IsEvenRow(cr) THEN EvenRowOffsets ELSE OddRowOffsets
    IN  [k \in 1..6 |-> <<cq + direct_offsets[k][1], cr + direct_offsets[k][2]>>]

\* variant: the result list starts empty when the search expands
BfsStart_NoCenter(q, r, rad) ==
    IF rad <= 0
      THEN [queue |-> <<>>, visited |-> {}, results |-> << <<q, r>> >>]
      ELSE [queue |-> << <<q, r, 0>> >>, visited |-> {<<q, r>>}, results |-> <<>>]

\* interaction.js 85-89: state before the while loop
BfsStart(q, r, rad) ==
    IF rad <= 0
      THEN [queue |-> <<>>, visited |-> {}, results |-> << <<q, r>> >>]
      ELSE [queue |-> << <<q, r, 0>> >>, visited |-> {<<q, r>>},
            results |-> << <<q, r>> >>]

\* interaction.js 100-103: directNeighbors.forEach from the k-th neighbour on
RECURSIVE VisitNeighbors(_, _, _, _)
VisitNeighbors(st, nbrs, k, dist) ==
    IF k > Len(nbrs) THEN st
    ELSE IF nbrs[k] \notin st.visited
      THEN VisitNeighbors([queue |-> Append(st.queue, <<nbrs[k][1], nbrs[k][2], dist + 1>>),
                           visited |-> st.visited \cup {nbrs[k]},
                           results |-> Append(st.results, nbrs[k])],
                          nbrs, k + 1, dist)
      ELSE VisitNeighbors(st, nbrs, k + 1, dist)

\* variant: a branch is expanded once more, currentDist <= radius
Expands_Inclusive(currentDist, rad) == currentDist <= rad

\* interaction.js 98: currentDist < radius
Expands(currentDist, rad) == currentDist < rad

\* interaction.js 97-104: one iteration of the while loop
BfsStep(st, rad) ==
    LET cur == Head(st.queue)
        rest == [st EXCEPT !.queue = Tail(st.queue)]
    IN  IF Expands(cur[3], rad)
          THEN VisitNeighbors(rest, getDirectNeighbors(cur[1], cur[2]), 1, cur[3])
          ELSE rest

RECURSIVE BfsRun(_, _)
BfsRun(st, rad) == IF st.queue = <<>> THEN st ELSE BfsRun(BfsStep(st, rad), rad)

\* interaction.js 81-107
getCoordsWithinRadius(q, r, rad) == BfsRun(BfsStart(q, r, rad), rad).results

\* interaction.js 155: coordsToFind.forEach(... hexagonCoordMap.get ...)
LookupAll(coordsToFind) ==
    {hexagonCoordMap[coordsToFind[k]] :
        k \in {j \in 1..Len(coordsToFind) : coordsToFind[j] \in DOMAIN hexagonCoordMap}}

\* hex.userData.coord exists: buildHexagonCoordMap has indexed the hexagon
\* (interaction.js 65; every tile of a data file has numeric coordinates)
HasCoord(h) == CoordOf(h) \in DOMAIN hexagonCoordMap

\* variant: the center is put into the result before it is validated
getHexagonsWithinRadius_CenterFirst(h, rad) ==
    IF h = NoHex THEN {}
    ELSE {h} \cup (IF ~HasCoord(h) THEN {}
                   ELSE LookupAll(getCoordsWithinRadius(CoordOf(h)[1], CoordOf(h)[2], rad)))

\* interaction.js 149-157
getHexagonsWithinRadius(h, rad) ==
    IF h = NoHex \/ ~HasCoord(h) THEN {}
    ELSE LookupAll(getCoordsWithinRadius(CoordOf(h)[1], CoordOf(h)[2], rad))

-----------------------------------------------------------------------------
(* Hover and focus ("debug") mode: interaction.js 115-143 and 194-382      *)
(* The raise/lower animation of a hovered tile is not part of the model.   *)

\* interaction.js 25
DEBUG_WORKABLE_RADIUS == 3
\* interaction.js 24, in hundredths
DEBUG_OUTER_RING_OPACITY == 40

Range(q) == {q[k] : k \in 1..Len(q)}

\* variant: the configured radius is used in focus mode too
getNeighborCoords_AlwaysRadius(q, r, active, rad) ==
    SelectSeq(getCoordsWithinRadius(q, r, rad), LAMBDA c : c # <<q, r>>)

\* interaction.js 115-127
getNeighborCoords(q, r, active, rad) ==
    IF active THEN <<>>
    ELSE SelectSeq(getCoordsWithinRadius(q, r, rad), LAMBDA c : c # <<q, r>>)

\* interaction.js 133-143; the coordinates are userData.coord, or tile.x and
\* tile.y when the hexagon is not indexed
getNeighborHexagons(h, active, rad) ==
    LET neighborCoords == getNeighborCoords(CoordOf(h)[1], CoordOf(h)[2], active, rad)
        present == SelectSeq(neighborCoords, LAMBDA c : c \in DOMAIN hexagonCoordMap)
    IN  [k \in 1..Len(present) |-> hexagonCoordMap[present[k]]]

\* interaction.js 414-415
isTopTierHighlighted(h) == highlightTopTiles /\ mapData.tiles[h].tier \in {"S", "A"}

\* interaction.js 404-421: the emissive colour of hexagon h after the reset
resetHoveredHexagon(mesh, h, active, center) ==
    IF ~isTopTierHighlighted(h) /\ ~(active /\ h = center)
      THEN [mesh EXCEPT !.emissive = "none"]
    ELSE IF active /\ h = center
      THEN [mesh EXCEPT !.emissive = "debug"]
    ELSE mesh

\* interaction.js 386-401
applyHoverEffect(mesh, h, active, center) ==
    IF ~isTopTierHighlighted(h) /\ ~(active /\ h = center)
      THEN [mesh EXCEPT !.emissive = "hover"]
    ELSE mesh

\* currentlyAffectedHexagons.forEach(hex => resetHoveredHexagon(hex)); with
\* spareCenter the focus center is left alone (interaction.js 365)
ResetAffected(ms, affected, active, center, spareCenter) ==
    [h \in 1..Len(ms) |->
        IF h \in Range(affected) /\ ~(spareCenter /\ active /\ h = center)
          THEN resetHoveredHexagon(ms[h], h, active, center)
          ELSE ms[h]]

\* variant: hidden neighbours are taken too
RECURSIVE PushNeighbors_Hidden(_, _, _, _, _)
PushNeighbors_Hidden(affected, neighbors, k, ms, target) ==
    IF k > Len(neighbors) THEN affected
    ELSE IF /\ neighbors[k] # target
            /\ neighbors[k] \notin Range(affected)
      THEN PushNeighbors_Hidden(Append(affected, neighbors[k]), neighbors, k + 1, ms, target)
      ELSE PushNeighbors_Hidden(affected, neighbors, k + 1, ms, target)

\* interaction.js 373-378: neighbors.forEach from the k-th neighbour on
RECURSIVE PushNeighbors(_, _, _, _, _)
PushNeighbors(affected, neighbors, k, ms, target) ==
    IF k > Len(neighbors) THEN affected
    ELSE IF /\ ms[neighbors[k]].visible
            /\ neighbors[k] # target
            /\ neighbors[k] \notin Range(affected)
      THEN PushNeighbors(Append(affected, neighbors[k]), neighbors, k + 1, ms, target)
      ELSE PushNeighbors(affected, neighbors, k + 1, ms, target)

\* interaction.js 354: the objects handed to the raycaster
objectsToIntersect ==
    IF isDebugModeActive THEN debugModeVisibleSet ELSE 1..Len(hexagons)

\* what the ray can report as intersects[0].object: one of the objects, or
\* nothing (three.js does not test .visible)
RaycastHits == objectsToIntersect \cup {NoHex}

\* variant: state.hoveredHexagon is left as it was
ClearHover_KeepHovered(ms, active, center) ==
    [meshes |-> ResetAffected(ms, currentlyAffectedHexagons, active, center, FALSE),
     affected |-> <<>>, hovered |-> hoveredHexagon]

\* the hover state is dropped: interaction.js 196, 299-304, 327-332, 356
ClearHover(ms, active, center) ==
    [meshes |-> ResetAffected(ms, currentlyAffectedHexagons, active, center, FALSE),
     affected |-> <<>>, hovered |-> NoHex]

KeepHover(ms) ==
    [meshes |-> ms, affected |-> currentlyAffectedHexagons, hovered |-> hoveredHexagon]

\* interaction.js 350-382 with the ray hitting `hit`
handleRaycast(hit) ==
    IF Len(hexagons) = 0 \/ DOMAIN hexagonCoordMap = {}
      THEN KeepHover(meshes)
    ELSE IF objectsToIntersect = {}
      THEN IF hoveredHexagon # NoHex
             THEN ClearHover(meshes, isDebugModeActive, debugModeCenterHex)
             ELSE KeepHover(meshes)
    ELSE LET newHoverTarget == IF hit # NoHex /\ meshes[hit].visible THEN hit ELSE NoHex
             cleared == ResetAffected(meshes, currentlyAffectedHexagons,
                                      isDebugModeActive, debugModeCenterHex, TRUE)
             neighbors == getNeighborHexagons(newHoverTarget, isDebugModeActive,
                                              hoverRadius)
             affected == PushNeighbors(<<newHoverTarget>>, neighbors, 1, cleared,
                                       newHoverTarget)
         IN  IF newHoverTarget = hoveredHexagon THEN KeepHover(meshes)
             ELSE IF newHoverTarget = NoHex
               THEN [meshes |-> cleared, affected |-> <<>>, hovered |-> NoHex]
             ELSE [meshes |-> [h \in 1..Len(cleared) |->
                                 IF h \in Range(affected)
                                   THEN applyHoverEffect(cleared[h], h, isDebugModeActive,
                                                         debugModeCenterHex)
                                   ELSE cleared[h]],
                   affected |-> affected,
                   hovered |-> newHoverTarget]

\* variant: tiles outside the focus sets keep their visibility
FocusDisplay_KeepOthers(ms, c, workable, outer) ==
    [h \in 1..Len(ms) |->
        LET shown == IF h \in outer
                       THEN [ms[h] EXCEPT !.visible = TRUE,
                                          !.opacity = DEBUG_OUTER_RING_OPACITY]
                     ELSE IF h \in workable
                       THEN [ms[h] EXCEPT !.visible = TRUE, !.opacity = 100]
                     ELSE ms[h]
        IN  IF h = c
              THEN [shown EXCEPT !.wasDebugHighlighted = TRUE,
                                 !.emissive = "debug", !.opacity = 100]
              ELSE shown]

\* interaction.js 241-291: the meshes after the focus sets were applied
FocusDisplay(ms, c, workable, outer) ==
    [h \in 1..Len(ms) |->
        LET shown == IF h \in outer
                       THEN [ms[h] EXCEPT !.visible = TRUE,
                                          !.opacity = DEBUG_OUTER_RING_OPACITY]
                     ELSE IF h \in workable
                       THEN [ms[h] EXCEPT !.visible = TRUE, !.opacity = 100]
                     ELSE [ms[h] EXCEPT !.visible = FALSE, !.opacity = 100]
        IN  IF h = c
              THEN [shown EXCEPT !.wasDebugHighlighted = TRUE,
                                 !.emissive = "debug", !.opacity = 100]
              ELSE shown]

\* variant: the outer ring is the whole visible set
OuterRing_Whole(visibleSet, workableSet) == visibleSet

\* interaction.js 239
OuterRing(visibleSet, workableSet) == visibleSet \ workableSet

\* interaction.js 225-305
enterDebugMode(c) ==
    \E visibleSet \in {getHexagonsWithinRadius(c, DEBUG_WORKABLE_RADIUS + 1)},
       workableSet \in {getHexagonsWithinRadius(c, DEBUG_WORKABLE_RADIUS)} :
      \E outerRingSet \in {OuterRing(visibleSet, workableSet)} :
        \E shown \in {FocusDisplay(meshes, c, workableSet, outerRingSet)} :
          \E hover \in {IF currentlyAffectedHexagons # <<>>
                           THEN ClearHover(shown, TRUE, c)
                           ELSE KeepHover(shown)} :
            /\ isDebugModeActive' = TRUE
            /\ debugModeCenterHex' = c
            /\ debugModeVisibleSet' = visibleSet
            /\ debugModeWorkableSet' = workableSet
            /\ debugModeOuterRingSet' = outerRingSet
            /\ meshes' = hover.meshes
            /\ currentlyAffectedHexagons' = hover.affected
            /\ hoveredHexagon' = hover.hovered

\* variant: the display is left as focus mode set it
RestoreDisplay_Skip(ms) == ms

\* interaction.js 326: updateMapDisplay()
RestoreDisplay(ms) ==
    updateMapDisplay(ms, mapData.tiles, selectedTiers, hoveredHexagon)

\* interaction.js 308-333
exitDebugMode ==
    IF ~isDebugModeActive
      THEN UNCHANGED <<focusVars, hoverVars, meshes>>
      ELSE LET unmarked ==
                   [h \in 1..Len(meshes) |->
                       IF h = debugModeCenterHex /\ meshes[h].wasDebugHighlighted
                         THEN [meshes[h] EXCEPT !.emissive = "none",
                                                !.wasDebugHighlighted = FALSE]
                         ELSE meshes[h]]
               restored == RestoreDisplay(unmarked)
               hover == IF currentlyAffectedHexagons # <<>>
                          THEN ClearHover(restored, FALSE, NoHex)
                          ELSE KeepHover(restored)
           IN  /\ isDebugModeActive' = FALSE
               /\ debugModeCenterHex' = NoHex
               /\ debugModeVisibleSet' = {}
               /\ debugModeWorkableSet' = {}
               /\ debugModeOuterRingSet' = {}
               /\ meshes' = hover.meshes
               /\ currentlyAffectedHexagons' = hover.affected
               /\ hoveredHexagon' = hover.hovered

-----------------------------------------------------------------------------
(* Input spaces of the function-level specifications                       *)

\* config.scoring_weights = {} : every leaf absent
EmptyWeights == Weights(NULL, NULL, NULL, NULL, NULL, NULL, NULL, NULL, NULL)

WeightSpace ==
    { defaultScoringWeights,
      EmptyWeights,
      Weights(0, 0, 0, 0, 0, 0, 0, 0, 0),
      Weights(-10, -10, -5, -5, -10, -10, -100, -5, -150),
      Weights(10, 10, 5, NULL, NULL, NULL, NULL, NULL, NULL),
      Weights(NULL, NULL, NULL, 5, 10, 10, 100, 5, 150),
      scoringPresets("production"),
      scoringPresets("gold") }

\* the example of utils.js 223, with a class that has no weight leaf
ResourceTable ==
    << [type |-> "strategic", table |-> <<[name |-> "RESOURCE_IRON", value |-> 5]>>],
       [type |-> "luxury", table |-> <<[name |-> "RESOURCE_WINE", value |-> 3]>>],
       [type |-> "bonus", table |-> <<[name |-> "RESOURCE_WHEAT", value |-> 2]>>] >>

ResourceTables == {<<>>, ResourceTable}

TableSpace ==
    { defaultTierPercentiles,
      << [tier |-> "F", percentile |-> 50], [tier |-> "S", percentile |-> 100] >>,
      << [tier |-> "S", percentile |-> 100], [tier |-> "F", percentile |-> 50] >>,
      << [tier |-> "S", percentile |-> 100] >>,
      << [tier |-> "F", percentile |-> 0], [tier |-> "S", percentile |-> 100] >>,
      << [tier |-> "F", percentile |-> 50] >>,
      << [tier |-> "S", percentile |-> 50], [tier |-> "F", percentile |-> 100] >>,
      << >> }

TileSpace ==
    { RawTile(terrain, feature, f, p, g, res, riv, app, goody) :
        terrain \in {"TERRAIN_OCEAN", "TERRAIN_GRASS"},
        feature \in {"", "FEATURE_ICE"},
        f \in {NULL, 0, 2}, p \in {NULL, 0, 1, 3}, g \in {NULL, 1},
        res \in {"", "RESOURCE_IRON", "RESOURCE_WINE", "RESOURCE_WHEAT",
                 "RESOURCE_UNLISTED"},
        riv \in BOOLEAN, app \in {NULL, -2, 0, 3}, goody \in BOOLEAN }

-----------------------------------------------------------------------------
(* Grid state while the scoring side runs, and the reverse                 *)

GridIdle ==
    /\ hexagons = <<>>
    /\ hexagonCoordMap = <<>>
    /\ centerHex = NoHex
    /\ radius = 0
    /\ bfs = IdleBfs
    /\ found = {}
    /\ pc = "idle"

\* interaction.js 15-22 and config.js 33-39: module state after import
InteractionIdle ==
    /\ meshes = <<>>
    /\ selectedTiers = allPossibleTiers
    /\ isDebugModeEnabled = FALSE
    /\ hoverRadius = 1
    /\ isDebugModeActive = FALSE
    /\ debugModeCenterHex = NoHex
    /\ debugModeVisibleSet = {}
    /\ debugModeWorkableSet = {}
    /\ debugModeOuterRingSet = {}
    /\ currentlyAffectedHexagons = <<>>
    /\ hoveredHexagon = NoHex
    /\ lastEvent = [name |-> "none", hit |-> NoHex, inFocus |-> FALSE,
                    affectedBefore |-> 0]

\* utils.js 148: no timer was created yet
TimerIdle ==
    /\ now = 0
    /\ timers = {}
    /\ timerId = 0
    /\ burst = [inputs |-> 0, lastInput |-> 0, runs |-> 0]

ScoreIdle ==
    /\ mapData = NoData
    /\ minScore = 0
    /\ maxScore = 100
    /\ scoring_weights = defaultScoringWeights
    /\ weightObjects = InitialWeightObjects
    /\ tier_percentiles = defaultTierPercentiles
    /\ resource_values = <<>>
    /\ scoreThresholds = EmptyMap
    /\ timeout = FALSE
    /\ sliderEdits = 0
    /\ lastOp = "init"

-----------------------------------------------------------------------------
(* Spec: the application (load, sliders, presets, debounced recalculation) *)

\* module state after import: state.js 93-95, config.js 24-45
Init == ScoreIdle /\ GridIdle /\ InteractionIdle /\ TimerIdle

\* the tiles of a file in one row: tile k at (k - 1, 0)
RowLayout(n) == [k \in 1..n |-> [x |-> k - 1, y |-> 0]]

\* the body of createMapVisualization with state.js 101-130; coords holds
\* tile.x and tile.y of the tiles of the file.  When setMapData throws, the
\* function is left before any hexagon is created.  indexed: the function
\* ends with buildHexagonCoordMap() (part_001 723); mapElements.js 234-316
\* ends without it.
CreateMapElements(data, coords, indexed) ==
    /\ ~mapData.loaded
    /\ LET r == setMapData(data)
           cand == {data[i].normalized_score : i \in
                       {k \in 1..Len(data) :
                           /\ (data[k].has_workable => data[k].is_workable)
                           /\ data[k].normalized_score # NULL}}
           published == setMinMaxScores(IF cand = {} THEN 0 ELSE SetMin(cand),
                                        IF cand = {} THEN 100 ELSE SetMax(cand))
       IN  /\ mapData' = [loaded |-> TRUE, tiles |-> data]
           /\ minScore' = IF r.thrown THEN r.min ELSE published.min
           /\ maxScore' = IF r.thrown THEN r.max ELSE published.max
           /\ IF r.thrown
                THEN UNCHANGED <<hexagons, hexagonCoordMap, meshes>>
                ELSE /\ hexagons' = coords
                     /\ hexagonCoordMap' = IF indexed THEN buildHexagonCoordMap(coords)
                                                    ELSE hexagonCoordMap
                     /\ meshes' = updateMapDisplay(
                                      [h \in 1..Len(coords) |-> createHexagonMesh],
                                      data, selectedTiers, hoveredHexagon)
    /\ lastOp' = "load"
    /\ UNCHANGED <<scoring_weights, weightObjects, tier_percentiles,
                   resource_values, scoreThresholds, timeout, sliderEdits>>
    /\ UNCHANGED <<centerHex, radius, bfs, found, pc>>
    /\ UNCHANGED <<configVars, focusVars, hoverVars, timerVars>>

\* part_001 635-725
CreateMapVisualization(data, coords) == CreateMapElements(data, coords, TRUE)

\* uiControls.js 355-364 with utils.js 147-157: the timer is (re)armed
SliderInput(key, newValue) ==
    /\ sliderEdits < MaxSliderEdits
    /\ sliderEdits' = sliderEdits + 1
    /\ scoring_weights' = updateConfig(scoring_weights, key, newValue)
    /\ weightObjects' = WeightObjectsAfterEdit(key, newValue)
    /\ timeout' = TRUE
    /\ lastOp' = "slider"
    /\ UNCHANGED <<mapData, minScore, maxScore, tier_percentiles,
                   resource_values, scoreThresholds>>
    /\ UNCHANGED gridVars
    /\ UNCHANGED <<meshes, interactionVars, timerVars>>

\* utils.js 150-153: the pending timer fires and runs handleRecalculation
DebouncedRecalculate ==
    /\ timeout
    /\ timeout' = FALSE
    /\ handleRecalculation(scoring_weights)
    /\ lastOp' = OpAfterRecalc(scoring_weights)
    /\ UNCHANGED <<scoring_weights, weightObjects, tier_percentiles,
                   resource_values, sliderEdits>>
    /\ UNCHANGED gridVars
    /\ UNCHANGED <<interactionVars, timerVars>>

\* uiControls.js 375-394 (preset buttons, and Reset with 'balanced')
applyWeightPreset(presetName) ==
    LET preset == IF presetName = "balanced" THEN getDefaultWeights
                  ELSE PresetObject(presetName)
        copied == JsonCopy(preset)
    IN  /\ scoring_weights' = copied.value
        /\ weightObjects' = [weightObjects EXCEPT !.ref = copied.ref]
        /\ handleRecalculation(copied.value)
        /\ lastOp' = OpAfterRecalc(copied.value)
        /\ UNCHANGED <<tier_percentiles, resource_values, timeout, sliderEdits>>
        /\ UNCHANGED gridVars
        /\ UNCHANGED <<interactionVars, timerVars>>

Next ==
    \/ \E data \in LoadFiles :
          CreateMapVisualization(data, RowLayout(Len(data))) /\ UNCHANGED lastEvent
    \/ \E key \in SliderKeys, v \in SliderValues : SliderInput(key, v)
    \/ DebouncedRecalculate
    \/ \E name \in PresetNames : applyWeightPreset(name)

Spec == Init /\ [][Next]_vars

-----------------------------------------------------------------------------
(* SpecFn: recalculateScoresAndTiers as a function of tiles and config     *)

InitFn ==
    /\ \E data \in DataFiles : mapData = [loaded |-> TRUE, tiles |-> data]
    /\ minScore = 0
    /\ maxScore = 100
    /\ scoring_weights = defaultScoringWeights
    /\ weightObjects = InitialWeightObjects
    /\ tier_percentiles \in TableSpace
    /\ resource_values \in ResourceTables
    /\ scoreThresholds = EmptyMap
    /\ timeout = FALSE
    /\ sliderEdits = 0
    /\ lastOp = "init"
    /\ GridIdle
    /\ InteractionIdle
    /\ TimerIdle

\* a call with the weights w in the config
Recalculate(w) ==
    /\ scoring_weights' = w
    /\ handleRecalculation(w)
    /\ lastOp' = OpAfterRecalc(w)
    /\ UNCHANGED <<weightObjects, tier_percentiles, resource_values, timeout,
                   sliderEdits>>
    /\ UNCHANGED gridVars
    /\ UNCHANGED <<interactionVars, timerVars>>

NextFn == \E w \in WeightSpace : Recalculate(w)

SpecFn == InitFn /\ [][NextFn]_vars

-----------------------------------------------------------------------------
(* SpecTile: calculateWeightedTileScore on one tile                        *)

InitTile ==
    /\ \E t \in TileSpace : mapData = [loaded |-> TRUE, tiles |-> <<t>>]
    /\ minScore = 0
    /\ maxScore = 100
    /\ scoring_weights = defaultScoringWeights
    /\ weightObjects = InitialWeightObjects
    /\ tier_percentiles = defaultTierPercentiles
    /\ resource_values \in ResourceTables
    /\ scoreThresholds = EmptyMap
    /\ timeout = FALSE
    /\ sliderEdits = 0
    /\ lastOp = "init"
    /\ GridIdle
    /\ InteractionIdle
    /\ TimerIdle

SpecTile == InitTile /\ [][NextFn]_vars


-----------------------------------------------------------------------------
(* SpecGrid: getHexagonsWithinRadius, the search run one iteration a step  *)

\* a w x h block of tiles whose first row is y0, without the tiles in holes
Block(w, h, y0, holes) ==
    LET cells == [k \in 1..(w * h) |-> [x |-> (k - 1) % w, y |-> y0 + ((k - 1) \div w)]]
    IN  SelectSeq(cells, LAMBDA c : <<c.x, c.y>> \notin holes)

GridMaps ==
    {Block(w, h, y0, {}) : w \in 1..MaxCols, h \in 1..MaxRows, y0 \in {-1, 0}}
    \cup {Block(MaxCols, MaxRows, y0, {<<hx, y0 + hy>>}) :
            y0 \in {-1, 0}, hx \in 0..(MaxCols - 1), hy \in 0..(MaxRows - 1)}

InitGrid ==
    /\ ScoreIdle
    /\ InteractionIdle
    /\ TimerIdle
    /\ hexagons \in GridMaps
    /\ hexagonCoordMap = buildHexagonCoordMap(hexagons)
    /\ centerHex = NoHex
    /\ radius = 0
    /\ bfs = IdleBfs
    /\ found = {}
    /\ pc = "idle"

\* interaction.js 151-154: entry, and the early return for a missing center
CallGetHexagons(h, rad) ==
    /\ pc = "idle"
    /\ centerHex' = h
    /\ radius' = rad
    /\ IF h = NoHex
         THEN /\ bfs' = IdleBfs
              /\ pc' = "done"
         ELSE /\ bfs' = BfsStart(CoordOf(h)[1], CoordOf(h)[2], rad)
              /\ pc' = "bfs"
    /\ found' = {}
    /\ UNCHANGED <<hexagons, hexagonCoordMap>>
    /\ UNCHANGED scoreVars
    /\ UNCHANGED <<meshes, interactionVars, timerVars>>

\* interaction.js 96-105
BfsIterate ==
    /\ pc = "bfs"
    /\ bfs.queue # <<>>
    /\ bfs' = BfsStep(bfs, radius)
    /\ UNCHANGED <<hexagons, hexagonCoordMap, centerHex, radius, found, pc>>
    /\ UNCHANGED scoreVars
    /\ UNCHANGED <<meshes, interactionVars, timerVars>>

\* interaction.js 106 and 155-156
CollectHexagons ==
    /\ pc = "bfs"
    /\ bfs.queue = <<>>
    /\ found' = LookupAll(bfs.results)
    /\ pc' = "done"
    /\ UNCHANGED <<hexagons, hexagonCoordMap, centerHex, radius, bfs>>
    /\ UNCHANGED scoreVars
    /\ UNCHANGED <<meshes, interactionVars, timerVars>>

NextGrid ==
    \/ \E h \in (1..Len(hexagons)) \cup {NoHex}, rad \in 0..MaxRadius :
          CallGetHexagons(h, rad)
    \/ BfsIterate
    \/ CollectHexagons

SpecGrid == InitGrid /\ [][NextGrid]_vars


-----------------------------------------------------------------------------
(* SpecUI: the interaction side of the application.  The map is loaded by  *)
(* createMapVisualization; pointer, click, key and control events follow   *)
(* in any order.  The weight controls are the subject of Spec.             *)

\* the tile kinds of a focus map, repeating along the file
KindAt(k) ==
    CASE k % 4 = 1 -> RiverTile
      [] k % 4 = 2 -> HillsTile
      [] k % 4 = 3 -> DesertTile
      [] OTHER -> OceanTile

\* a data file of the converter with the tiles at the given coordinates
FocusMap(coords) ==
    [tiles |-> Prescored([k \in 1..Len(coords) |-> KindAt(k)]), coords |-> coords]

\* a row long enough to hold a tile beyond the outer ring, a block with both
\* row parities, a single tile and a file without tiles
FocusMaps ==
    { FocusMap(RowLayout(FocusCols)),
      FocusMap(Block(3, 2, 0, {})),
      FocusMap(RowLayout(1)),
      FocusMap(<<>>) }

\* tier filters the checkboxes are set to
TierFilters == {allPossibleTiers, allPossibleTiers \ {"C"}}

\* the record of an event: its kind, the hexagon the ray hit, and what the
\* handler found on entry (focus mode active, size of the affected set)
Event(name, hit) ==
    [name |-> name, hit |-> hit, inFocus |-> isDebugModeActive,
     affectedBefore |-> Len(currentlyAffectedHexagons)]

\* interaction.js 178-193: onMouseMove, onTouchStart and onTouchMove
OnPointerMove(hit) ==
    /\ hit \in RaycastHits
    /\ \E res \in {handleRaycast(hit)} :
          /\ meshes' = res.meshes
          /\ currentlyAffectedHexagons' = res.affected
          /\ hoveredHexagon' = res.hovered
    /\ lastEvent' = Event("pointer", hit)
    /\ UNCHANGED <<scoreVars, gridVars, configVars, focusVars, timerVars>>

\* interaction.js 194-198
OnTouchEnd ==
    /\ \E res \in {IF currentlyAffectedHexagons # <<>>
                      THEN ClearHover(meshes, isDebugModeActive, debugModeCenterHex)
                      ELSE KeepHover(meshes)} :
          /\ meshes' = res.meshes
          /\ currentlyAffectedHexagons' = res.affected
          /\ hoveredHexagon' = res.hovered
    /\ lastEvent' = Event("touchend", NoHex)
    /\ UNCHANGED <<scoreVars, gridVars, configVars, focusVars, timerVars>>

\* variant: a click is taken while the mode is active
ClickIgnored_NeverWhenArmed == ~isDebugModeEnabled

\* interaction.js 215
ClickIgnored == ~isDebugModeEnabled \/ isDebugModeActive

\* variant: the enable toggle is not consulted
ClickArmed_Always == ~isDebugModeActive

\* interaction.js 215, read as the condition to go on
ClickArmed == ~ClickIgnored

\* interaction.js 213-222; the ray is cast over state.hexagons
OnCanvasClick(hit) ==
    /\ hit \in (1..Len(hexagons)) \cup {NoHex}
    /\ IF ClickArmed /\ Len(hexagons) # 0 /\ hit # NoHex
         THEN enterDebugMode(hit)
         ELSE UNCHANGED <<focusVars, hoverVars, meshes>>
    /\ lastEvent' = Event("click", hit)
    /\ UNCHANGED <<scoreVars, gridVars, configVars, timerVars>>

\* interaction.js 336-341, for a keydown of Escape
OnEscapeKey ==
    /\ IF isDebugModeActive
         THEN exitDebugMode
         ELSE UNCHANGED <<focusVars, hoverVars, meshes>>
    /\ lastEvent' = Event("escape", NoHex)
    /\ UNCHANGED <<scoreVars, gridVars, configVars, timerVars>>

\* interaction.js 308-333, called by another module
CallExitDebugMode ==
    /\ exitDebugMode
    /\ lastEvent' = Event("exit", NoHex)
    /\ UNCHANGED <<scoreVars, gridVars, configVars, timerVars>>

\* part_003 93-103: state.js exports neither isDebugModeActive nor
\* exitDebugMode, so the branch that would leave the mode is never taken
ToggleDebugMode(checked) ==
    /\ isDebugModeEnabled' = checked
    /\ lastEvent' = Event("toggle", NoHex)
    /\ UNCHANGED <<selectedTiers, hoverRadius, focusVars, hoverVars, meshes>>
    /\ UNCHANGED <<scoreVars, gridVars, timerVars>>

\* part_003 136-139 and 183-198: the value is clamped to the input's range
SetHoverRadius(value) ==
    /\ hoverRadius' = Max(0, Min(5, value))
    /\ lastEvent' = Event("radius", NoHex)
    /\ UNCHANGED <<selectedTiers, isDebugModeEnabled, focusVars, hoverVars, meshes>>
    /\ UNCHANGED <<scoreVars, gridVars, timerVars>>

\* part_003 215-220
handleTierFilterChange(checkedTiers) ==
    /\ selectedTiers' = checkedTiers
    /\ meshes' = updateMapDisplay(meshes, mapData.tiles, checkedTiers, hoveredHexagon)
    /\ lastEvent' = Event("filter", NoHex)
    /\ UNCHANGED <<isDebugModeEnabled, hoverRadius, focusVars, hoverVars>>
    /\ UNCHANGED <<scoreVars, gridVars, timerVars>>

\* main.js 110: the data file has arrived
LoadFocusMap(m) ==
    /\ CreateMapVisualization(m.tiles, m.coords)
    /\ lastEvent' = Event("load", NoHex)

InputEvents ==
    \/ \E hit \in RaycastHits : OnPointerMove(hit)
    \/ OnTouchEnd
    \/ \E hit \in (1..Len(hexagons)) \cup {NoHex} : OnCanvasClick(hit)
    \/ OnEscapeKey
    \/ CallExitDebugMode
    \/ \E checked \in BOOLEAN : ToggleDebugMode(checked)
    \/ \E value \in 0..MaxHoverRadius : SetHoverRadius(value)
    \/ \E checkedTiers \in TierFilters : handleTierFilterChange(checkedTiers)

NextUI ==
    \/ \E m \in FocusMaps : LoadFocusMap(m)
    \/ InputEvents

SpecUI == Init /\ [][NextUI]_vars

-----------------------------------------------------------------------------
(* SpecDebounce: the debounced slider recalculation on a clock             *)

\* uiControls.js 105: the wait of 300 ms, in ticks of 100 ms
DebounceWait == 3

\* variant: the earlier timer is not cleared
ArmTimer_NoClear(ts, id, t) ==
    ts \cup {[id |-> id + 1, due |-> t + DebounceWait]}

\* utils.js 154-155: clearTimeout(timeout); timeout = setTimeout(later, wait)
\* at time t, the closure variable holding timer id
ArmTimer(ts, id, t) ==
    {x \in ts : x.id # id} \cup {[id |-> id + 1, due |-> t + DebounceWait]}

\* a timer whose delay has elapsed; the host runs its callback before it lets
\* time pass or delivers a later input
TimerDue == \E t \in timers : t.due <= now

\* the slider moved at time t: the burst goes on when the input before it is
\* less than the wait back, otherwise a new burst begins
BurstAfterInput(b, t) ==
    IF b.inputs > 0 /\ t - b.lastInput < DebounceWait
      THEN [b EXCEPT !.inputs = b.inputs + 1, !.lastInput = t]
      ELSE [inputs |-> 1, lastInput |-> t, runs |-> 0]

\* the slider whose input events are followed on the clock
BurstKeys == {"yields.food"}

\* the data files loaded while the sliders are moved
BurstFiles == {d \in LoadFiles : Len(d) <= 1}

\* uiControls.js 355-364 with utils.js 149-156: a slider input event
DebouncedInput(key, newValue) ==
    /\ ~TimerDue
    /\ sliderEdits < MaxBurstInputs
    /\ now + DebounceWait <= MaxTime
    /\ sliderEdits' = sliderEdits + 1
    /\ scoring_weights' = updateConfig(scoring_weights, key, newValue)
    /\ weightObjects' = WeightObjectsAfterEdit(key, newValue)
    /\ timers' = ArmTimer(timers, timerId, now)
    /\ timerId' = timerId + 1
    /\ timeout' = TRUE
    /\ burst' = BurstAfterInput(burst, now)
    /\ lastOp' = "slider"
    /\ UNCHANGED <<mapData, minScore, maxScore, tier_percentiles,
                   resource_values, scoreThresholds>>
    /\ UNCHANGED <<gridVars, meshes, interactionVars, now>>

\* the host takes a timer whose delay has elapsed out of its table and calls
\* later(), which begins with clearTimeout(timeout): utils.js 150-151
CallbackTaken ==
    \E t \in timers :
        /\ t.due <= now
        /\ timers' = {x \in timers : x.id # t.id /\ x.id # timerId}

\* utils.js 150-153: later() of a timer whose delay has elapsed
TimerFires ==
    /\ CallbackTaken
    /\ timeout' = FALSE
    /\ handleRecalculation(scoring_weights)
    /\ lastOp' = OpAfterRecalc(scoring_weights)
    /\ burst' = [burst EXCEPT !.runs = burst.runs + 1]
    /\ UNCHANGED <<scoring_weights, weightObjects, tier_percentiles,
                   resource_values, sliderEdits>>
    /\ UNCHANGED <<gridVars, interactionVars, now, timerId>>

\* 100 ms pass
Tick ==
    /\ ~TimerDue
    /\ now < MaxTime
    /\ now' = now + 1
    /\ UNCHANGED <<scoreVars, gridVars, meshes, interactionVars, timers, timerId, burst>>

NextDebounce ==
    \/ \E data \in BurstFiles :
          CreateMapVisualization(data, RowLayout(Len(data))) /\ UNCHANGED lastEvent
    \/ \E key \in BurstKeys, v \in SliderValues : DebouncedInput(key, v)
    \/ TimerFires
    \/ Tick

\* the clock runs, and the host calls the callback of a due timer (the step
\* of TimerFires, which is enabled whenever a timer is due)
SpecDebounce ==
    Init /\ [][NextDebounce]_vars /\ WF_now(Tick) /\ WF_timers(CallbackTaken)

-----------------------------------------------------------------------------
(* SpecRace: input events while the hexagons exist and the coordinate      *)
(* index is not built                                                      *)

\* mapElements.js 234-316: the hexagons are created and displayed, the index
\* is left as it is
LoadRaceMap(m) ==
    /\ CreateMapElements(m.tiles, m.coords, FALSE)
    /\ lastEvent' = Event("load", NoHex)

\* interaction.js 53-71: buildHexagonCoordMap(), exported, called after the
\* hexagons were created
BuildIndex ==
    /\ mapData.loaded
    /\ DOMAIN hexagonCoordMap = {}
    /\ hexagonCoordMap' = buildHexagonCoordMap(hexagons)
    /\ lastEvent' = Event("build", NoHex)
    /\ UNCHANGED <<scoreVars, hexagons, centerHex, radius, bfs, found, pc, meshes,
                   configVars, focusVars, hoverVars, timerVars>>

NextRace ==
    \/ \E m \in FocusMaps : LoadRaceMap(m)
    \/ BuildIndex
    \/ InputEvents

SpecRace == Init /\ [][NextRace]_vars

-----------------------------------------------------------------------------
(* Properties                                                              *)

\* a recalculation was the last handler to run
Recalculated == lastOp \in {"recalc", "rerun"}

Tiles == mapData.tiles
TileIdx == 1..Len(mapData.tiles)

\* workable as the data model defines it: not open ocean, no ice feature
Workable(t) == t.terrain # "TERRAIN_OCEAN" /\ t.feature # "FEATURE_ICE"
WorkableIdx == {i \in TileIdx : Workable(Tiles[i])}

TableTiers == {tier_percentiles[k].tier : k \in 1..Len(tier_percentiles)}
TablePercentiles == {tier_percentiles[k].percentile : k \in 1..Len(tier_percentiles)}

\* the table is not empty and its largest percentile is 1.0
TableEndsAtOne ==
    /\ tier_percentiles # <<>>
    /\ 100 \in TablePercentiles
    /\ \A p \in TablePercentiles : p <= 100

\* C1: after a recalculation with at least one workable tile and a non-empty
\* percentile table whose largest percentile is 1.0, every workable tile
\* carries a tier label of the table, and every non-workable tile has
\* is_workable = false, weighted_score = 0, normalized_score = 0, tier = null.
C1_Coverage ==
    (Recalculated /\ WorkableIdx # {} /\ TableEndsAtOne) =>
        \A i \in TileIdx :
            IF Workable(Tiles[i])
              THEN /\ Tiles[i].tier # NoTier
                   /\ Tiles[i].tier \in TableTiers
                   /\ Tiles[i].has_workable /\ Tiles[i].is_workable
              ELSE /\ Tiles[i].has_workable /\ ~Tiles[i].is_workable
                   /\ Tiles[i].weighted_score = 0
                   /\ Tiles[i].normalized_score = 0
                   /\ Tiles[i].tier = NoTier

\* a recalculation over at least two workable tiles and a non-workable one,
\* whose derived fields were absent before
C1_Witness ==
    /\ lastOp = "rerun"
    /\ TableEndsAtOne
    /\ Cardinality(WorkableIdx) >= 2
    /\ \E i \in TileIdx : ~Workable(Tiles[i]) /\ Tiles[i].normalized_score = 0
    /\ \A i \in WorkableIdx : Tiles[i].tier # NoTier

\* tier order F < E < D < C < B < A < S
TierRank(t) ==
    CASE t = "F" -> 1 [] t = "E" -> 2 [] t = "D" -> 3 [] t = "C" -> 4
      [] t = "B" -> 5 [] t = "A" -> 6 [] t = "S" -> 7 [] OTHER -> 0

\* percentiles strictly increase along the tier order and end at 1.0
TableWellOrdered ==
    /\ TableEndsAtOne
    /\ \A a, b \in 1..Len(tier_percentiles) :
          (a # b) =>
            /\ tier_percentiles[a].tier # tier_percentiles[b].tier
            /\ (TierRank(tier_percentiles[a].tier) < TierRank(tier_percentiles[b].tier)
                  <=> tier_percentiles[a].percentile < tier_percentiles[b].percentile)

\* C2: with a well-ordered table, a workable tile with a strictly higher
\* normalized_score never has a lower-ranked tier than one with a lower score.
C2_Monotonic ==
    (Recalculated /\ TableWellOrdered) =>
        \A i, j \in WorkableIdx :
            Tiles[i].normalized_score > Tiles[j].normalized_score =>
                TierRank(Tiles[i].tier) >= TierRank(Tiles[j].tier)

\* two workable tiles with different scores received different tiers
C2_Witness ==
    /\ Recalculated
    /\ TableWellOrdered
    /\ \E i, j \in WorkableIdx :
          /\ i < j
          /\ Tiles[i].normalized_score > Tiles[j].normalized_score
          /\ TierRank(Tiles[i].tier) > TierRank(Tiles[j].tier)

\* C3: a recalculation that follows a recalculation with the same weights
\* (tiles and percentile table being fixed) changes no tile field and returns
\* the same thresholds.
C3_Idempotent ==
    [][(Recalculated /\ Recalculated' /\ scoring_weights' = scoring_weights) =>
          /\ mapData' = mapData
          /\ scoreThresholds' = scoreThresholds
          /\ minScore' = minScore /\ maxScore' = maxScore]_vars

\* a second pass was run over tiles that tie on normalized_score
C3_Witness ==
    /\ lastOp = "rerun"
    /\ tier_percentiles # <<>>
    /\ \E i, j \in WorkableIdx :
          /\ i # j
          /\ Tiles[i].normalized_score = Tiles[j].normalized_score
          /\ Tiles[i].normalized_score > 0
          /\ Tiles[i].tier # Tiles[j].tier

\* C4: calculateWeightedTileScore never returns a negative number.
C4_NonNegative ==
    Recalculated => \A i \in TileIdx : Tiles[i].weighted_score >= 0

\* a workable tile with positive yields scored under negative weights
C4_Witness ==
    /\ Recalculated
    /\ scoring_weights.yields.food = -10
    /\ \E i \in TileIdx :
          /\ Workable(Tiles[i])
          /\ Tiles[i].base_food = 2
          /\ Tiles[i].weighted_score = 0


\* every weight leaf is present in config.scoring_weights
LeavesPresent(w) ==
    /\ w.yields.food # NULL /\ w.yields.production # NULL /\ w.yields.gold # NULL
    /\ w.bonuses.balance_factor # NULL
    /\ w.bonuses.resource_strategic_factor # NULL
    /\ w.bonuses.resource_luxury_factor # NULL
    /\ w.bonuses.fresh_water # NULL
    /\ w.bonuses.appeal_positive_factor # NULL
    /\ w.bonuses.goody_hut # NULL

\* an absent yield counts as 0
YieldOf(v) == IF v = NULL THEN 0 ELSE v

\* the weight of a resource class; a class without a weight counts 1.0
ClassWeight(w, type) ==
    IF type = "strategic" THEN w.bonuses.resource_strategic_factor
    ELSE IF type = "luxury" THEN w.bonuses.resource_luxury_factor
    ELSE 10

\* table value of the resource times the weight of its class, 0 if not listed
ResourceTerm(t, w) ==
    LET listed == {kj \in UNION {{<<k, j>> : j \in 1..Len(resource_values[k].table)} :
                                    k \in 1..Len(resource_values)} :
                      resource_values[kj[1]].table[kj[2]].name = t.resource}
    IN  IF listed = {} THEN 0
        ELSE LET e == CHOOSE kj \in listed : \A o \in listed : kj[1] <= o[1]
             IN  resource_values[e[1]].table[e[2]].value
                   * ClassWeight(w, resource_values[e[1]].type)

\* the sum of the six components, written out
ScoreFormula(t, w) ==
    LET f == YieldOf(t.base_food)
        p == YieldOf(t.base_production)
        g == YieldOf(t.base_gold)
    IN  f * w.yields.food + p * w.yields.production + g * w.yields.gold
        + (IF f > 0 /\ p > 0 THEN (IF f <= p THEN f ELSE p) * w.bonuses.balance_factor ELSE 0)
        + ResourceTerm(t, w)
        + (IF t.rivers THEN w.bonuses.fresh_water ELSE 0)
        + (IF t.appeal # NULL /\ t.appeal > 0
             THEN t.appeal * w.bonuses.appeal_positive_factor ELSE 0)
        + (IF t.goodyhut THEN w.bonuses.goody_hut ELSE 0)

\* C5: with every weight present, a non-workable tile scores 0 and a workable
\* tile scores max(0, yields + balance + resource + fresh water + positive
\* appeal + goody); absent yields count as 0 and a negative appeal as 0.
C5_ScoreFormula ==
    (Recalculated /\ LeavesPresent(scoring_weights)) =>
        \A i \in TileIdx :
            Tiles[i].weighted_score =
                IF ~Workable(Tiles[i]) THEN 0
                ELSE LET total == ScoreFormula(Tiles[i], scoring_weights)
                     IN  IF total > 0 THEN total ELSE 0

\* a workable tile with a listed resource, a river, a goody hut and negative
\* appeal was scored
C5_Witness ==
    /\ Recalculated
    /\ LeavesPresent(scoring_weights)
    /\ resource_values # <<>>
    /\ \E i \in TileIdx :
          /\ Workable(Tiles[i])
          /\ Tiles[i].resource = "RESOURCE_IRON"
          /\ Tiles[i].rivers /\ Tiles[i].goodyhut
          /\ Tiles[i].appeal = -2
          /\ Tiles[i].base_food = 2 /\ Tiles[i].base_production = 3
          /\ Tiles[i].base_gold = NULL
          /\ Tiles[i].weighted_score > 0

\* absent leaves replaced by the documented defaults of config.js
WithDocumentedDefaults(w) ==
    Weights(IF w.yields.food = NULL THEN 10 ELSE w.yields.food,
            IF w.yields.production = NULL THEN 10 ELSE w.yields.production,
            IF w.yields.gold = NULL THEN 5 ELSE w.yields.gold,
            IF w.bonuses.balance_factor = NULL THEN 5 ELSE w.bonuses.balance_factor,
            IF w.bonuses.resource_strategic_factor = NULL THEN 10
              ELSE w.bonuses.resource_strategic_factor,
            IF w.bonuses.resource_luxury_factor = NULL THEN 10
              ELSE w.bonuses.resource_luxury_factor,
            IF w.bonuses.fresh_water = NULL THEN 100 ELSE w.bonuses.fresh_water,
            IF w.bonuses.appeal_positive_factor = NULL THEN 5
              ELSE w.bonuses.appeal_positive_factor,
            IF w.bonuses.goody_hut = NULL THEN 150 ELSE w.bonuses.goody_hut)

\* C6: an absent weight leaf counts as its documented default (food 1.0,
\* production 1.0, gold 0.5, balance 0.5, strategic 1.0, luxury 1.0,
\* fresh water 10.0, positive appeal 0.5, goody 15.0), so a tile scored with
\* absent leaves scores as with those leaves set to the defaults.
C6_DocumentedDefaults ==
    Recalculated =>
        \A i \in TileIdx :
            Tiles[i].weighted_score =
                IF ~Workable(Tiles[i]) THEN 0
                ELSE LET total == ScoreFormula(Tiles[i],
                                      WithDocumentedDefaults(scoring_weights))
                     IN  IF total > 0 THEN total ELSE 0

\* the mean weighted_score over the workable tiles is 0
ZeroMean ==
    /\ WorkableIdx # {}
    /\ \A i \in WorkableIdx : Tiles[i].weighted_score = 0

\* C7 as stated: with a zero mean every workable normalized_score is 0, the
\* tiles keep tier = null and no thresholds are produced.
C7_SkipsTiering ==
    (Recalculated /\ ZeroMean) =>
        /\ \A i \in WorkableIdx : Tiles[i].normalized_score = 0
        /\ \A i \in WorkableIdx : Tiles[i].tier = NoTier
        /\ scoreThresholds = EmptyMap

\* C7 amended: with a zero mean every workable normalized_score is 0 and the
\* tier assignment still runs: with a non-empty percentile table every
\* workable tile gets a tier of the table and every threshold produced is 0;
\* only an empty table leaves the tiers null and the thresholds empty.
C7_ZeroMeanStillTiered ==
    (Recalculated /\ ZeroMean) =>
        /\ \A i \in WorkableIdx : Tiles[i].normalized_score = 0
        /\ IF tier_percentiles = <<>>
             THEN /\ \A i \in WorkableIdx : Tiles[i].tier = NoTier
                  /\ scoreThresholds = EmptyMap
             ELSE /\ \A i \in WorkableIdx : Tiles[i].tier \in TableTiers
                  /\ DOMAIN scoreThresholds # {}
                  /\ DOMAIN scoreThresholds \subseteq TableTiers
                  /\ \A T \in DOMAIN scoreThresholds : scoreThresholds[T] = 0

\* two workable tiles with zero scores were recalculated and tiered
C7_Witness ==
    /\ Recalculated
    /\ ZeroMean
    /\ Cardinality(WorkableIdx) >= 2
    /\ tier_percentiles # <<>>
    /\ \A i \in WorkableIdx : Tiles[i].tier # NoTier

\* normalized scores of the workable tiles
WorkableScores == {Tiles[i].normalized_score : i \in WorkableIdx}

\* C8: after handleRecalculation the published (minScore, maxScore) are the
\* minimum and maximum normalized_score over the workable tiles, maxScore
\* widened by 1 when they are equal, (0, 100) without workable tiles; hence
\* minScore < maxScore after every recalculation.
C8_ScoreRange ==
    Recalculated =>
        /\ minScore < maxScore
        /\ IF mapData.loaded /\ WorkableIdx # {}
             THEN /\ \A v \in WorkableScores : minScore <= v
                  /\ minScore \in WorkableScores
                  /\ IF \A v \in WorkableScores : v = minScore
                       THEN maxScore = minScore + 1
                       ELSE /\ maxScore \in WorkableScores
                            /\ \A v \in WorkableScores : v <= maxScore
             ELSE minScore = 0 /\ maxScore = 100

\* all workable tiles share one score and the range was widened
C8_Witness ==
    /\ lastOp = "rerun"
    /\ mapData.loaded
    /\ Cardinality(WorkableIdx) >= 2
    /\ \A v \in WorkableScores : v = minScore
    /\ minScore > 0
    /\ maxScore = minScore + 1


\* row-parity adjacency: the two tiles of the same row next to a, and in the
\* rows above and below the two columns x, x+1 (even row) or x-1, x (odd row)
Adjacent(a, b) ==
    LET dx == b[1] - a[1]
        dy == b[2] - a[2]
    IN  \/ dy = 0 /\ dx \in {-1, 1}
        \/ dy \in {-1, 1} /\ dx \in (IF a[2] % 2 = 0 THEN {0, 1} ELSE {-1, 0})

\* coordinates at hop distance at most k from c on the unbounded grid
RECURSIVE HexBall(_, _)
HexBall(c, k) ==
    IF k <= 0 THEN {c}
    ELSE LET inner == HexBall(c, k - 1)
         IN  {p \in ((c[1] - k)..(c[1] + k)) \X ((c[2] - k)..(c[2] + k)) :
                 \E b \in inner : p = b \/ Adjacent(b, p)}

Handles == 1..Len(hexagons)
QueryDone == pc = "done" /\ centerHex # NoHex
SmallerResult == getHexagonsWithinRadius(centerHex, radius - 1)

\* C9 as stated: the handle set for radius r >= 1 is a strict superset of the
\* set for radius r-1, and every result contains the center.
C9_StrictSuperset ==
    QueryDone =>
        /\ centerHex \in found
        /\ radius >= 1 => (SmallerResult \subseteq found /\ SmallerResult # found)

\* C9 amended: the handle set for radius r >= 1 is a superset of the set for
\* radius r-1, strictly larger exactly when some indexed tile lies at hop
\* distance exactly r from the center; every result contains the center.
C9_Superset ==
    QueryDone =>
        /\ centerHex \in found
        /\ radius >= 1 =>
              /\ SmallerResult \subseteq found
              /\ (SmallerResult # found <=>
                    \E h \in Handles :
                        /\ CoordOf(h) \in HexBall(CoordOf(centerHex), radius)
                        /\ CoordOf(h) \notin HexBall(CoordOf(centerHex), radius - 1))

\* a radius-2 query reached tiles that the radius-1 query does not reach
C9_Witness ==
    /\ QueryDone
    /\ radius = 2
    /\ centerHex \in found
    /\ SmallerResult \subseteq found
    /\ Cardinality(found) > Cardinality(SmallerResult)
    /\ Cardinality(SmallerResult) > 1

NoDuplicates(q) == \A a, b \in 1..Len(q) : a # b => q[a] # q[b]
QueueCoords == [k \in 1..Len(bfs.queue) |-> <<bfs.queue[k][1], bfs.queue[k][2]>>]
SixNeighboursPresent(c) ==
    Cardinality({p \in DOMAIN hexagonCoordMap : Adjacent(c, p)}) = 6

\* C10: the search never enqueues a coordinate twice; on return it has
\* produced the 1 + 3R(R+1) distinct coordinates within R hops of the center
\* on the unbounded grid, and the result holds exactly the handles indexed at
\* those coordinates; with R = 1 and six present neighbours it has 7 tiles.
C10_ExactBall ==
    /\ pc \in {"bfs", "done"} =>
          /\ NoDuplicates(bfs.results)
          /\ NoDuplicates(QueueCoords)
          /\ \A k \in 1..Len(bfs.queue) :
                \E j \in 1..Len(bfs.results) : bfs.results[j] = QueueCoords[k]
    /\ QueryDone =>
          /\ Len(bfs.results) = 1 + 3 * radius * (radius + 1)
          /\ {bfs.results[k] : k \in 1..Len(bfs.results)}
                = HexBall(CoordOf(centerHex), radius)
          /\ found = {h \in Handles : CoordOf(h) \in HexBall(CoordOf(centerHex), radius)}
          /\ (radius = 1 /\ SixNeighboursPresent(CoordOf(centerHex)))
                => Cardinality(found) = 7

\* a radius-1 query on an odd-row center with all six neighbours present
C10_Witness ==
    /\ QueryDone
    /\ radius = 1
    /\ CoordOf(centerHex)[2] % 2 = 1
    /\ SixNeighboursPresent(CoordOf(centerHex))
    /\ Cardinality(found) = 7

-----------------------------------------------------------------------------
(* Focus mode and hover: C11 to C19                                        *)

FocusSets == <<debugModeVisibleSet, debugModeWorkableSet, debugModeOuterRingSet>>
Marked == {h \in 1..Len(meshes) : meshes[h].wasDebugHighlighted}

Abs(n) == IF n < 0 THEN -n ELSE n

\* hop distance of two offset coordinates (rows of even y shifted right):
\* the distance of their axial coordinates <<x - (y + y mod 2) / 2, y>>
AxialQ(c) == c[1] - ((c[2] + (c[2] % 2)) \div 2)
HexDistance(a, b) ==
    (Abs(AxialQ(a) - AxialQ(b)) + Abs(a[2] - b[2])
        + Abs(AxialQ(a) - AxialQ(b) + a[2] - b[2])) \div 2

\* handles of the indexed tiles within k hops of hexagon h
Ball(h, k) == {g \in Handles : HexDistance(CoordOf(h), CoordOf(g)) <= k}

\* C11: a click delivered while focus mode is active leaves the center and
\* the three focus sets as the first entry made them; in every reachable
\* state there is at most one focus center: a center exists exactly while the
\* mode is active and no other hexagon carries the center marker.
C11_ClickWhileActive ==
    /\ [](/\ isDebugModeActive <=> debugModeCenterHex # NoHex
          /\ Marked \subseteq {debugModeCenterHex}
          /\ Cardinality(Marked) <= 1)
    /\ [][(lastEvent'.name = "click" /\ isDebugModeActive)
            => UNCHANGED <<focusVars, hoverVars, meshes>>]_vars

\* a tile other than the center was clicked while the mode was active
C11_Witness ==
    /\ lastEvent.name = "click"
    /\ lastEvent.inFocus
    /\ lastEvent.hit # NoHex
    /\ lastEvent.hit # debugModeCenterHex
    /\ isDebugModeActive
    /\ isDebugModeEnabled

\* C12: focus mode becomes active only in a click handler whose ray hit a
\* tile while config.isDebugModeEnabled was on and the mode was Idle; a
\* click with the toggle off, or one that hits no tile, leaves the mode Idle,
\* and Idle means no center and empty focus sets.
C12_EntryOnlyByArmedClick ==
    /\ [](~isDebugModeActive =>
            /\ debugModeCenterHex = NoHex
            /\ debugModeVisibleSet = {}
            /\ debugModeWorkableSet = {}
            /\ debugModeOuterRingSet = {})
    /\ [][(~isDebugModeActive /\ isDebugModeActive')
            => /\ lastEvent'.name = "click"
               /\ lastEvent'.hit # NoHex
               /\ debugModeCenterHex' = lastEvent'.hit
               /\ isDebugModeEnabled]_vars
    /\ [][(/\ lastEvent'.name = "click"
           /\ ~isDebugModeActive
           /\ (~isDebugModeEnabled \/ lastEvent'.hit = NoHex))
            => ~isDebugModeActive']_vars

\* the mode was entered by a click on a tile with the toggle on
C12_Witness ==
    /\ lastEvent.name = "click"
    /\ ~lastEvent.inFocus
    /\ lastEvent.hit # NoHex
    /\ isDebugModeActive
    /\ debugModeCenterHex = lastEvent.hit
    /\ isDebugModeEnabled

\* C13: while focus mode is active with center C, workableSet holds the
\* indexed tiles within 3 hops of C, fullSet those within 4 hops, outerRing is
\* fullSet minus workableSet, outerRing and workableSet are disjoint and
\* together make fullSet, and C is in workableSet.
C13_FocusSets ==
    isDebugModeActive =>
        /\ debugModeCenterHex \in Handles
        /\ debugModeWorkableSet = Ball(debugModeCenterHex, 3)
        /\ debugModeVisibleSet = Ball(debugModeCenterHex, 4)
        /\ debugModeOuterRingSet = debugModeVisibleSet \ debugModeWorkableSet
        /\ debugModeOuterRingSet \cap debugModeWorkableSet = {}
        /\ debugModeOuterRingSet \cup debugModeWorkableSet = debugModeVisibleSet
        /\ debugModeCenterHex \in debugModeWorkableSet

\* a focus with neighbours in the workable rings, a tile in the outer ring
\* and a tile beyond it
C13_Witness ==
    /\ isDebugModeActive
    /\ Cardinality(debugModeWorkableSet) >= 4
    /\ debugModeOuterRingSet # {}
    /\ debugModeVisibleSet # Handles

\* the display the entry into focus mode leaves behind
EntryDisplay ==
    /\ \A h \in Handles \ debugModeVisibleSet : ~meshes[h].visible
    /\ \A h \in debugModeWorkableSet : meshes[h].visible /\ meshes[h].opacity = 100
    /\ \A h \in debugModeOuterRingSet : meshes[h].visible /\ meshes[h].opacity = 40
    /\ meshes[debugModeCenterHex].wasDebugHighlighted
    /\ meshes[debugModeCenterHex].emissive = "debug"
    /\ meshes[debugModeCenterHex].opacity = 100

\* C14: in the state the entry into focus mode leaves, every tile outside
\* fullSet is hidden, every workableSet tile is visible with opacity 1.0
\* whatever the tier filter, every outerRing tile is visible with opacity
\* 0.4, and the center carries the marker and is opaque.
C14_EntryDisplay ==
    [][(~isDebugModeActive /\ isDebugModeActive') => EntryDisplay']_vars

\* just entered, with a tier filter that hides a tile of the workable set in
\* the normal display, an outer ring and a tile beyond it
C14_Witness ==
    /\ lastEvent.name = "click"
    /\ ~lastEvent.inFocus
    /\ isDebugModeActive
    /\ EntryDisplay
    /\ \E h \in debugModeWorkableSet :
          ~DisplayOf(mapData.tiles[h], selectedTiers).visible
    /\ debugModeOuterRingSet # {}
    /\ debugModeVisibleSet # Handles

\* a pointer event in Idle mode that makes hexagon hoveredHexagon' the new
\* hover target
HoverOnto ==
    /\ lastEvent'.name = "pointer"
    /\ ~isDebugModeActive
    /\ hoveredHexagon' # NoHex
    /\ hoveredHexagon' # hoveredHexagon

NoRepeats(q) == Cardinality(Range(q)) = Len(q)

\* C15 as stated: in Idle mode the affected set of a new hover target H is
\* H with every indexed tile within hoverRadius hops of H.
C15_AllNeighbours ==
    [][HoverOnto =>
         /\ Range(currentlyAffectedHexagons') = Ball(hoveredHexagon', hoverRadius)
         /\ NoRepeats(currentlyAffectedHexagons')]_vars

\* C15: in Idle mode the affected set of a new hover target H is H, first and
\* once, with every indexed tile within hoverRadius hops of H that is visible
\* at that moment; with radius 0 it is H alone.
C15_VisibleNeighbours ==
    [][HoverOnto =>
         /\ Range(currentlyAffectedHexagons')
              = {hoveredHexagon'}
                  \cup {g \in Ball(hoveredHexagon', hoverRadius) : meshes[g].visible}
         /\ NoRepeats(currentlyAffectedHexagons')
         /\ currentlyAffectedHexagons'[1] = hoveredHexagon'
         /\ meshes[hoveredHexagon'].visible
         /\ hoverRadius = 0 => currentlyAffectedHexagons' = <<hoveredHexagon'>>]_vars

\* the pointer came onto a tile that has a visible and a hidden tile within
\* the hover radius
C15_Witness ==
    /\ lastEvent.name = "pointer"
    /\ ~lastEvent.inFocus
    /\ lastEvent.affectedBefore = 0
    /\ ~isDebugModeActive
    /\ hoveredHexagon # NoHex
    /\ lastEvent.hit = hoveredHexagon
    /\ hoverRadius >= 1
    /\ Len(currentlyAffectedHexagons) >= 2
    /\ \E g \in Ball(hoveredHexagon, hoverRadius) : ~meshes[g].visible

\* C16: while focus mode is active the affected set holds at most one tile,
\* a member of debugModeVisibleSet, whatever config.hoverRadius is; a pointer
\* event in focus mode that changes the hover target leaves exactly the new
\* target, or nothing, in the set.
C16_NoExpansionInFocus ==
    /\ [](isDebugModeActive =>
            /\ Len(currentlyAffectedHexagons) <= 1
            /\ Range(currentlyAffectedHexagons) \subseteq debugModeVisibleSet)
    /\ [][(lastEvent'.name = "pointer" /\ isDebugModeActive)
            => /\ isDebugModeActive'
               /\ currentlyAffectedHexagons'
                    = IF hoveredHexagon' = NoHex THEN <<>> ELSE <<hoveredHexagon'>>]_vars

\* in focus mode, with a hover radius of at least 1, the pointer is on a tile
\* other than the center that has another visible tile within the radius
C16_Witness ==
    /\ lastEvent.name = "pointer"
    /\ lastEvent.inFocus
    /\ isDebugModeActive
    /\ hoverRadius >= 1
    /\ hoveredHexagon # NoHex
    /\ hoveredHexagon # debugModeCenterHex
    /\ currentlyAffectedHexagons = <<hoveredHexagon>>
    /\ \E g \in Ball(hoveredHexagon, hoverRadius) \ {hoveredHexagon} :
          g \in debugModeVisibleSet /\ meshes[g].visible

\* a step of onEscapeKey (for the Escape key) or of a call of exitDebugMode
ExitStep == lastEvent'.name \in {"escape", "exit"}

\* C17: Escape or exitDebugMode while focus mode is active makes the mode
\* inactive, clears the center, its marker and emphasis, the three focus sets
\* and the hover state, and gives every hexagon the visibility and opacity
\* updateMapDisplay computes from the tier filter and the tile data; while
\* the mode is not active they change nothing.
C17_ExitRestores ==
    /\ [][(ExitStep /\ isDebugModeActive) =>
            /\ ~isDebugModeActive'
            /\ debugModeCenterHex' = NoHex
            /\ debugModeVisibleSet' = {}
            /\ debugModeWorkableSet' = {}
            /\ debugModeOuterRingSet' = {}
            /\ currentlyAffectedHexagons' = <<>>
            /\ hoveredHexagon' = NoHex
            /\ Len(meshes') = Len(hexagons)
            /\ \A h \in 1..Len(meshes') :
                  /\ ~meshes'[h].wasDebugHighlighted
                  /\ meshes'[h].emissive # "debug"
                  /\ meshes'[h].visible
                       = DisplayOf(mapData.tiles[h], selectedTiers).visible
                  /\ meshes'[h].opacity
                       = DisplayOf(mapData.tiles[h], selectedTiers).opacity]_vars
    /\ [][(ExitStep /\ ~isDebugModeActive) =>
            UNCHANGED <<focusVars, hoverVars, meshes, scoreVars, gridVars,
                        configVars>>]_vars

\* the mode was left on a map wider than the focus area while a tier filter
\* was set and a tile was hovered
C17_Witness ==
    /\ lastEvent.name \in {"escape", "exit"}
    /\ lastEvent.inFocus
    /\ lastEvent.affectedBefore = 1
    /\ ~isDebugModeActive
    /\ selectedTiers # allPossibleTiers
    /\ Len(hexagons) > DEBUG_WORKABLE_RADIUS + 2
    /\ \E h \in 1..Len(meshes) : ~meshes[h].visible
    /\ \E h \in 1..Len(meshes) : meshes[h].visible

\* C18: a pointer event whose ray hits no tile, and the end of a touch, leave
\* the affected set empty and no tile hovered, whatever was affected before;
\* no tile keeps the hover emphasis, and the affected set is empty exactly
\* when no tile is hovered.
C18_PointerLeaves ==
    /\ []((hoveredHexagon = NoHex) <=> (currentlyAffectedHexagons = <<>>))
    /\ [][((lastEvent'.name = "pointer" /\ lastEvent'.hit = NoHex)
            \/ lastEvent'.name = "touchend")
            => /\ currentlyAffectedHexagons' = <<>>
               /\ hoveredHexagon' = NoHex
               /\ \A h \in 1..Len(meshes') : meshes'[h].emissive # "hover"]_vars

\* the pointer left the tiles, or the touch ended, while a tile and a
\* neighbour of it were affected
C18_Witness ==
    /\ lastEvent.name \in {"pointer", "touchend"}
    /\ lastEvent.hit = NoHex
    /\ lastEvent.affectedBefore >= 2
    /\ currentlyAffectedHexagons = <<>>
    /\ hoveredHexagon = NoHex

-----------------------------------------------------------------------------
(* Events ahead of the coordinate index: C19                               *)

IndexEmpty == DOMAIN hexagonCoordMap = {}

\* every handle the interaction state holds is a hexagon of state.hexagons,
\* so no handler dereferences a missing hexagon
HandlesDefined ==
    /\ Len(meshes) = Len(hexagons)
    /\ debugModeCenterHex \in Handles \cup {NoHex}
    /\ hoveredHexagon \in Handles \cup {NoHex}
    /\ debugModeVisibleSet \cup debugModeWorkableSet \cup debugModeOuterRingSet
         \subseteq Handles
    /\ Range(currentlyAffectedHexagons) \subseteq Handles

\* C19: while the coordinate index is empty (not yet built, or built over no
\* hexagons) every radius and neighbour query returns an empty result, and a
\* pointer or click event completes with empty focus sets and an empty
\* affected set; every handle kept in the interaction state is a hexagon.
C19_EmptyIndex ==
    /\ [](HandlesDefined)
    /\ [](IndexEmpty =>
            /\ \A h \in Handles \cup {NoHex} : \A rad \in 0..(DEBUG_WORKABLE_RADIUS + 1) :
                  getHexagonsWithinRadius(h, rad) = {}
            /\ \A h \in Handles : \A rad \in 0..MaxHoverRadius :
                  getNeighborHexagons(h, isDebugModeActive, rad) = <<>>)
    /\ [][(lastEvent'.name \in {"pointer", "click"} /\ IndexEmpty) =>
            /\ debugModeVisibleSet' = {}
            /\ debugModeWorkableSet' = {}
            /\ debugModeOuterRingSet' = {}
            /\ currentlyAffectedHexagons' = <<>>
            /\ hoveredHexagon' = NoHex]_vars

\* a click on a hexagon was handled while hexagons existed and the index was
\* empty: the radius queries of enterDebugMode ran
C19_Witness ==
    /\ IndexEmpty
    /\ Len(hexagons) > 1
    /\ lastEvent.name = "click"
    /\ lastEvent.hit # NoHex
    /\ ~lastEvent.inFocus
    /\ isDebugModeActive
    /\ debugModeCenterHex = lastEvent.hit
    /\ debugModeVisibleSet = {}

-----------------------------------------------------------------------------
(* Debounced recalculation: C20                                            *)

\* steps of the slider handler and of the timer callback
InputStep == sliderEdits' = sliderEdits + 1
RunStep == burst'.runs = burst.runs + 1 /\ burst'.inputs = burst.inputs

-----------------------------------------------------------------------------
(* Focus display under other UI events: C21                                *)

\* C21 as stated: while focus mode is active every tile outside
\* debugModeVisibleSet is hidden, every outer-ring tile has the reduced
\* opacity and the center carries its emphasis, whatever other UI events
\* have been handled since the entry.
C21_FocusDisplayKept ==
    isDebugModeActive =>
        /\ \A h \in Handles \ debugModeVisibleSet : ~meshes[h].visible
        /\ \A h \in debugModeOuterRingSet :
              meshes[h].visible /\ meshes[h].opacity = DEBUG_OUTER_RING_OPACITY
        /\ meshes[debugModeCenterHex].wasDebugHighlighted
        /\ meshes[debugModeCenterHex].emissive = "debug"

\* the focus display stands as long as no handler calls updateMapDisplay
C21_KeptWithoutRedisplay ==
    [][(isDebugModeActive /\ isDebugModeActive' /\ C21_FocusDisplayKept
        /\ lastEvent'.name # "filter") => C21_FocusDisplayKept']_vars

-----------------------------------------------------------------------------
(* Scores against the current weights: C22                                 *)

\* the tiles and the published range are what a recalculation with the
\* current config would leave
ScoresCurrent ==
    LET r == recalculateScoresAndTiers(mapData.tiles, Config)
        published == setMinMaxScores(ScoreRange(r.tiles).min, ScoreRange(r.tiles).max)
    IN  /\ \A i \in TileIdx :
              /\ Tiles[i].weighted_score = r.tiles[i].weighted_score
              /\ Tiles[i].normalized_score = r.tiles[i].normalized_score
              /\ Tiles[i].tier = r.tiles[i].tier
        /\ minScore = published.min
        /\ maxScore = published.max

\* C22 as stated: once the map data is loaded and no debounce timer is
\* pending, every tile's weighted_score, normalized_score and tier, and
\* (minScore, maxScore), are those of a recalculation with the current
\* config.scoring_weights.
C22_NeverStale ==
    (mapData.loaded /\ ~timeout) => ScoresCurrent

\* the scores are current once a handler has run after the load
C22_CurrentAfterFirstTrigger ==
    (mapData.loaded /\ ~timeout /\ lastOp # "load") => ScoresCurrent

-----------------------------------------------------------------------------
(* SpecTier: the tier walk of normalizeAndAssignTiers over up to ten tiles *)

MaxLadder == 10

\* a workable tile whose score under the default weights grows with food
GrassTile(food) == RawTile("TERRAIN_GRASS", "", food, 0, 0, "", FALSE, NULL, FALSE)

\* n grass tiles: distinct scores ascending or descending in file order,
\* scores tied in pairs, or an unworkable tile ahead of the ascending ones
Ladder(n, kind) ==
    CASE kind = "asc"   -> [k \in 1..n |-> GrassTile(k)]
      [] kind = "desc"  -> [k \in 1..n |-> GrassTile(n + 1 - k)]
      [] kind = "pairs" -> [k \in 1..n |-> GrassTile((k + 1) \div 2)]
      [] kind = "ocean" -> <<OceanTile>> \o [k \in 1..n |-> GrassTile(k)]

LadderKinds == {"asc", "desc", "pairs", "ocean"}

LadderMaps == {Ladder(n, kind) : n \in 1..MaxLadder, kind \in LadderKinds}

TierLabels == <<"F", "E", "D", "C", "B", "A">>

CutPoints == <<0, 15, 35, 50, 65, 95>>

\* a table p_1 < ... < p_k = 1.0 whose lower boundaries are the cuts in P
AscendingTable(P) ==
    LET lower == SelectSeq(CutPoints, LAMBDA c : c \in P)
    IN  [j \in 1..(Len(lower) + 1) |->
            IF j <= Len(lower)
              THEN [tier |-> TierLabels[j], percentile |-> lower[j]]
              ELSE [tier |-> "S", percentile |-> 100]]

AscendingTables ==
    {AscendingTable(P) : P \in SUBSET {CutPoints[j] : j \in 1..Len(CutPoints)}}

InitTier ==
    /\ \E data \in LadderMaps : mapData = [loaded |-> TRUE, tiles |-> data]
    /\ minScore = 0
    /\ maxScore = 100
    /\ scoring_weights = defaultScoringWeights
    /\ weightObjects = InitialWeightObjects
    /\ tier_percentiles \in AscendingTables
    /\ resource_values = <<>>
    /\ scoreThresholds = EmptyMap
    /\ timeout = FALSE
    /\ sliderEdits = 0
    /\ lastOp = "init"
    /\ GridIdle
    /\ InteractionIdle
    /\ TimerIdle

SpecTier == InitTier /\ [][NextFn]_vars

\* ---- C23 ------------------------------------------------------------------

NormKey(i) == Nullish(mapData.tiles[i].normalized_score, 0)

\* 0-based position of tile i among the workable tiles sorted ascending by
\* normalized_score, equal scores kept in file order
SortedPos(i) ==
    Cardinality({j \in WorkableIdx :
                    \/ NormKey(j) < NormKey(i)
                    \/ (NormKey(j) = NormKey(i) /\ j < i)})

TableAscending ==
    /\ Len(tier_percentiles) > 0
    /\ \A j \in 1..(Len(tier_percentiles) - 1) :
          tier_percentiles[j].percentile < tier_percentiles[j + 1].percentile
    /\ tier_percentiles[Len(tier_percentiles)].percentile = 100

\* ceil(n * p_j) - 1
RawEnd(j) == CeilPct(Cardinality(WorkableIdx), tier_percentiles[j].percentile) - 1

\* the same index clamped into [0, n - 1] (utils.js 428)
ClampedEnd(j) == Max(0, Min(RawEnd(j), Cardinality(WorkableIdx) - 1))

FirstTier(End(_), pos) ==
    LET j == CHOOSE j \in 1..Len(tier_percentiles) :
                 /\ End(j) >= pos
                 /\ \A k \in 1..(j - 1) : End(k) < pos
    IN  tier_percentiles[j].tier

\* the place of tier t in the table
TablePos(t) == CHOOSE j \in 1..Len(tier_percentiles) : tier_percentiles[j].tier = t

\* tiers occupy contiguous disjoint ranges of sorted positions, and a tier
\* has a threshold exactly when its range holds a tile
RangesContiguous ==
    /\ \A a, b \in WorkableIdx :
          SortedPos(a) < SortedPos(b) =>
              TablePos(mapData.tiles[a].tier) <= TablePos(mapData.tiles[b].tier)
    /\ \A j \in 1..Len(tier_percentiles) :
          (tier_percentiles[j].tier \in DOMAIN scoreThresholds)
              <=> (\E i \in WorkableIdx : mapData.tiles[i].tier = tier_percentiles[j].tier)

DistinctScores == \A a, b \in WorkableIdx : a # b => NormKey(a) # NormKey(b)

HalfTable ==
    << [tier |-> "F", percentile |-> 50], [tier |-> "S", percentile |-> 100] >>

\* Scenario B: two tiers at 0.5 and 1.0 over ten tiles with distinct scores
BottomFiveTopFive ==
    (tier_percentiles = HalfTable /\ Cardinality(WorkableIdx) = 10 /\ DistinctScores) =>
        \A i \in WorkableIdx :
            mapData.tiles[i].tier = IF SortedPos(i) < 5 THEN "F" ELSE "S"

TierWalked == Recalculated /\ TableAscending /\ WorkableIdx # {}

\* C23 as stated: the tile at sorted position i carries the first tier T_j
\* with ceil(n * p_j) - 1 >= i, the ranges are contiguous, empty ranges are
\* skipped, and {0.5, 1.0} over ten distinct scores splits five and five
C23_FirstTierUnclamped ==
    TierWalked =>
        /\ \A i \in WorkableIdx :
              mapData.tiles[i].tier = FirstTier(RawEnd, SortedPos(i))
        /\ RangesContiguous
        /\ BottomFiveTopFive

\* C23: after a recalculation with an ascending table ending at 1.0, the tile
\* at sorted position i carries the first tier T_j whose end index
\* ceil(n * p_j) - 1, clamped into [0, n - 1], is >= i; the ranges are
\* contiguous, a tier has a threshold exactly when it holds a tile, and
\* {0.5, 1.0} over ten distinct scores gives the bottom five F, the top five S
C23_FirstTierClamped ==
    TierWalked =>
        /\ \A i \in WorkableIdx :
              mapData.tiles[i].tier = FirstTier(ClampedEnd, SortedPos(i))
        /\ RangesContiguous
        /\ BottomFiveTopFive

\* ten tiles with distinct scores tiered by the two-entry table
C23_Witness ==
    /\ TierWalked
    /\ tier_percentiles = HalfTable
    /\ Cardinality(WorkableIdx) = 10
    /\ DistinctScores
    /\ mapData.tiles[1].tier # mapData.tiles[10].tier

\* ---- C24 ------------------------------------------------------------------

EqualScoresEqualTiers ==
    \A a, b \in WorkableIdx :
        NormKey(a) = NormKey(b) => mapData.tiles[a].tier = mapData.tiles[b].tier

ThresholdsSeparate ==
    \A a \in WorkableIdx :
        LET T == mapData.tiles[a].tier
        IN  /\ T \in DOMAIN scoreThresholds
            /\ NormKey(a) <= scoreThresholds[T]
            /\ \A b \in WorkableIdx :
                  TablePos(mapData.tiles[b].tier) > TablePos(T) =>
                      NormKey(b) >= scoreThresholds[T]

\* C24 as stated: after a recalculation two workable tiles with equal
\* normalized_score carry the same tier, every tile labelled T has
\* normalized_score <= scoreThresholds[T] and every tile in a higher tier has
\* normalized_score >= scoreThresholds[T]
C24_TierFunctionOfScore ==
    TierWalked => (EqualScoresEqualTiers /\ ThresholdsSeparate)

\* the part of C24 that does not depend on ties: the thresholds separate the
\* tiers
C24_ThresholdsSeparate == TierWalked => ThresholdsSeparate

\* ---- C25 ------------------------------------------------------------------

\* C25 as stated: focus mode is active only while the enable toggle is on
\* (switching the toggle off exits focus mode)
C25_ActiveImpliesArmed == isDebugModeActive => isDebugModeEnabled

\* the step of C25: the toggle handler run with checked = false leaves focus
\* mode inactive
C25_ToggleOffExits ==
    [][(lastEvent'.name = "toggle" /\ ~isDebugModeEnabled') => ~isDebugModeActive']_vars

\* what the handler does: the toggle leaves the focus state as it was
C25_ToggleKeepsFocus ==
    [][lastEvent'.name = "toggle" =>
          /\ isDebugModeActive' = isDebugModeActive
          /\ debugModeCenterHex' = debugModeCenterHex
          /\ debugModeVisibleSet' = debugModeVisibleSet]_vars

\* ---- C26 ------------------------------------------------------------------

\* C26 as stated: a data load completes (the hexagons of the file exist
\* afterwards) and leaves minScore different from maxScore
C26_LoadCompletes ==
    lastOp = "load" =>
        /\ minScore # maxScore
        /\ Len(hexagons) = Len(mapData.tiles)

\* the loads that do complete: the scored workable tiles of the file are
\* absent or do not all share one score
C26_CompletesUnlessEqual ==
    (lastOp = "load" /\ ~setMapData(mapData.tiles).thrown) =>
        /\ minScore # maxScore
        /\ Len(hexagons) = Len(mapData.tiles)

\* ---- C27 ------------------------------------------------------------------

\* the six direct neighbours of coordinate a, as the search computes them
NeighbourSet(a) == Range(getDirectNeighbors(a[1], a[2]))

\* the coordinates at most two columns and two rows away from a
Around(a) == {<<a[1] + dx, a[2] + dy>> : dx \in -2..2, dy \in -2..2}

\* the coordinates the search has reached so far, on the map or off it
Reached == bfs.visited

\* C27: for every coordinate A the search has reached (negative rows among
\* them) and every coordinate B, B is among the six direct neighbours of A
\* exactly when A is among those of B; the six neighbours of A are pairwise
\* distinct and A is not one of them
C27_SymmetricAdjacency ==
    \A a \in Reached :
        /\ \A b \in Around(a) \cup NeighbourSet(a) :
              (b \in NeighbourSet(a)) <=> (a \in NeighbourSet(b))
        /\ Cardinality(NeighbourSet(a)) = 6
        /\ a \notin NeighbourSet(a)

\* the search has expanded coordinates of a negative odd row, a negative
\* even row and a non-negative row
C27_Witness ==
    /\ pc = "done"
    /\ radius = 2
    /\ \E a \in Reached : a[2] = -1
    /\ \E a \in Reached : a[2] = -2
    /\ \E a \in Reached : a[2] = -3
    /\ \E a \in Reached : a[2] > 0 /\ a[1] < 0

-----------------------------------------------------------------------------
(* createHexagonMesh: where a tile is drawn (part_001 417-431)             *)

\* metadata.min_x, max_x, min_y, max_y: the bounding box of the tiles
Metadata(tiles) ==
    [min_x |-> SetMin({tiles[k].x : k \in 1..Len(tiles)}),
     max_x |-> SetMax({tiles[k].x : k \in 1..Len(tiles)}),
     min_y |-> SetMin({tiles[k].y : k \in 1..Len(tiles)}),
     max_y |-> SetMax({tiles[k].y : k \in 1..Len(tiles)})]

\* part_001 417-431: mesh.position of a tile, xPos in units of hexWidth / 2
\* and zPos in units of 0.75 * hexLayoutHeight; the shift by half the total
\* width and height is the same for every tile and left out
MeshPosition(tile, metadata) ==
    LET gridHeight == metadata.max_y - metadata.min_y
        col == tile.x - metadata.min_x
        row == gridHeight - (tile.y - metadata.min_y)
    IN  [xPos |-> 2 * col + (IF JsRem(row, 2) # 0 THEN 1 ELSE 0), zPos |-> row]

\* two drawn hexagons touch: their centres are one hexWidth apart, i.e. next
\* to each other in a row, or half a width apart in rows next to each other
Touching(p, q) ==
    \/ p.zPos = q.zPos /\ Abs(p.xPos - q.xPos) = 2
    \/ Abs(p.zPos - q.zPos) = 1 /\ Abs(p.xPos - q.xPos) = 1

\* ---- C28 ------------------------------------------------------------------

\* for the tiles a and b of the map: b is a direct neighbour of a by the
\* offset tables exactly when the two are drawn touching
LogicalIsVisual ==
    \A a, b \in 1..Len(hexagons) :
        (CoordOf(b) \in NeighbourSet(CoordOf(a)))
            <=> Touching(MeshPosition(hexagons[a], Metadata(hexagons)),
                         MeshPosition(hexagons[b], Metadata(hexagons)))

\* C28 as stated: for every bounding box the neighbours by the row-parity
\* offset tables are the tiles drawn touching
C28_LogicalIsVisual == hexagons # <<>> => LogicalIsVisual

\* the two adjacencies coincide on every map whose max_y is odd
C28_CoincideWhenMaxOdd ==
    (hexagons # <<>> /\ JsRem(Metadata(hexagons).max_y, 2) # 0) => LogicalIsVisual

\* and differ on every map of at least two rows whose max_y is even
C28_DifferWhenMaxEven ==
    (/\ hexagons # <<>>
     /\ JsRem(Metadata(hexagons).max_y, 2) = 0
     /\ Metadata(hexagons).min_y < Metadata(hexagons).max_y
     /\ Metadata(hexagons).min_x < Metadata(hexagons).max_x) => ~LogicalIsVisual

-----------------------------------------------------------------------------
(* SpecIndex: buildHexagonCoordMap over hexagon lists that hold tiles with  *)
(* numeric, null and non-numeric coordinates and hexagons without a tile    *)

MaxIndexHexes == 2

\* a mesh whose userData has no tile
NoTileHex == [isHexagon |-> TRUE]

HexKinds ==
    { [x |-> 0, y |-> 0], [x |-> 1, y |-> 0], [x |-> 0, y |-> 1],
      [x |-> NULL, y |-> 0], [x |-> 1, y |-> NULL],
      [x |-> NaN, y |-> 0], [x |-> 0, y |-> NaN],
      NoTileHex }

HexLists == SeqsUpTo(HexKinds, MaxIndexHexes)

\* part_001 638 and 677-723: the hexagons of the earlier tile set are dropped,
\* those of the new one added, and the index is built
ReplaceHexagons(hexs) ==
    /\ hexagons' = hexs
    /\ hexagonCoordMap' = buildHexagonCoordMap(hexs)
    /\ lastEvent' = Event("load", NoHex)
    /\ UNCHANGED <<scoreVars, centerHex, radius, bfs, found, pc, meshes,
                   configVars, focusVars, hoverVars, timerVars>>

\* interaction.js 53-71: one more call over the same hexagons
BuildIndexAgain ==
    /\ hexagonCoordMap' = buildHexagonCoordMap(hexagons)
    /\ lastEvent' = Event("build", NoHex)
    /\ UNCHANGED <<scoreVars, hexagons, centerHex, radius, bfs, found, pc, meshes,
                   configVars, focusVars, hoverVars, timerVars>>

NextIndex ==
    \/ \E hexs \in HexLists : ReplaceHexagons(hexs)
    \/ BuildIndexAgain

SpecIndex == Init /\ [][NextIndex]_vars

\* ---- C29 ------------------------------------------------------------------

IndexBuilt == lastEvent.name \in {"load", "build"}

\* typeof v === 'number'
IsNumeric(v) == v # NULL /\ v # NaN

HexIdx == 1..Len(hexagons)

NumericHexes ==
    {i \in HexIdx : /\ HasTile(hexagons[i])
                    /\ IsNumeric(hexagons[i].x) /\ IsNumeric(hexagons[i].y)}

\* hexagons whose Number(x) and Number(y) are not NaN
ConvertibleHexes ==
    {i \in HexIdx : /\ HasTile(hexagons[i])
                    /\ ~isNaN(hexagons[i].x) /\ ~isNaN(hexagons[i].y)}

\* the index has one entry per coordinate pair of the hexagons in S, each
\* held by a hexagon of S whose tile has that pair, converted by conv
IndexIsExactly(S, conv(_)) ==
    /\ DOMAIN hexagonCoordMap =
          {<<conv(hexagons[i].x), conv(hexagons[i].y)>> : i \in S}
    /\ \A c \in DOMAIN hexagonCoordMap :
          /\ hexagonCoordMap[c] \in S
          /\ conv(hexagons[hexagonCoordMap[c]].x) = c[1]
          /\ conv(hexagons[hexagonCoordMap[c]].y) = c[2]

Same(v) == v

RebuildKeeps ==
    [][(lastEvent'.name = "build" /\ IndexBuilt) =>
          hexagonCoordMap' = hexagonCoordMap]_vars

\* C29 as stated: after buildHexagonCoordMap the index holds exactly one
\* entry per distinct numeric (x, y) among the current hexagons, each mapping
\* to a hexagon whose tile has those coordinates; hexagons without a tile or
\* with non-numeric coordinates are skipped
C29_IndexOfNumericTiles == IndexBuilt => IndexIsExactly(NumericHexes, Same)

\* what the function builds: one entry per pair (Number(x), Number(y)) that
\* is free of NaN, nothing left from an earlier hexagon list, and a rebuild
\* over the same hexagons changes nothing
C29_IndexOfConvertibleTiles ==
    /\ [](IndexBuilt => IndexIsExactly(ConvertibleHexes, Number))
    /\ RebuildKeeps

\* ---- C30 ------------------------------------------------------------------

\* food 1.0, production 1.0, gold 0.5, balance 0.5, strategic 1.0, luxury
\* 1.0, fresh_water 10.0, appeal_positive 0.5, goody_hut 15.0, in tenths
DocumentedDefaults == Weights(10, 10, 5, 5, 10, 10, 100, 5, 150)

StoredWeightsIntact ==
    /\ weightObjects.defaults = DocumentedDefaults
    /\ \A name \in PresetNames : weightObjects.presets[name] = scoringPresets(name)

\* the step leaves the tiles and the score range as a recalculation with the
\* documented defaults gives them
RecalculatedWithDefaults ==
    LET r == recalculateScoresAndTiers(mapData.tiles,
                 [Config EXCEPT !.scoring_weights = DocumentedDefaults])
        published == setMinMaxScores(ScoreRange(r.tiles).min, ScoreRange(r.tiles).max)
    IN  /\ mapData'.tiles = r.tiles
        /\ scoreThresholds' = r.scoreThresholds
        /\ minScore' = published.min
        /\ maxScore' = published.max

\* a step of the Reset button
ResetStep == applyWeightPreset("balanced")

\* C30: the stored defaults and preset definitions are never altered by
\* slider edits or preset applications, and every Reset step sets
\* config.scoring_weights to the documented default weights and, with a map
\* loaded, leaves the scores and tiers recalculated with them
C30_ResetRestoresDefaults ==
    /\ []StoredWeightsIntact
    /\ [][ResetStep =>
             /\ scoring_weights' = DocumentedDefaults
             /\ (mapData.loaded => (RecalculatedWithDefaults /\ Recalculated'))]_vars

\* Reset was pressed after a slider edit, with a map loaded and the timer of
\* the edit still pending
C30_Witness ==
    /\ mapData.loaded
    /\ sliderEdits >= 1
    /\ timeout
    /\ Recalculated
    /\ scoring_weights = DocumentedDefaults
    /\ \E i \in TileIdx : mapData.tiles[i].is_workable

=============================================================================
